---- MODULE Spec2Model ----
(***************************************************************************)
(* The research pipeline of research-assistant: ResearchOrchestrator and   *)
(* the components it sequences (QueryDecomposer, SearchEngine,             *)
(* ContentFetcher, FactExtractor, Synthesizer).                            *)
(*                                                                         *)
(* Representation of Python values:                                        *)
(*   - a str is a tuple of text atoms (one atom = one character, or one    *)
(*     fixed text that no string operation used on it cuts); '' is << >>;  *)
(*   - a JSON value is a record [t, s]: t its type ("str", "num", "null",  *)
(*     "absent" for a missing key), s its text;                            *)
(*   - the result of a call that may raise is a record [exc, val]: exc is  *)
(*     "none" or the name of the exception class.                          *)
(***************************************************************************)
EXTENDS Integers, Sequences, FiniteSets, TLC

\* ------------------------------------------------------------------ bounds
\* Most entries in one JSON array answered by the model.
MaxItems == 4
\* Largest configured min_subqueries / max_subqueries drawn in SpecDecompose.
MaxCfg == 3

\* ------------------------------------------------------- program constants
\* config['agent'].get('min_subqueries', 3)
MinQueriesDefault == 3
\* config['agent'].get('max_subqueries', 5)
MaxQueriesDefault == 5
\* _call_claude(self, prompt, max_retries=3)
MaxRetries == 3

\* ------------------------------------------------------------ Python str
\* A str is a tuple of atoms.  An atom is one character, or a run of
\* characters that no operation looks inside ("from-env").  A character is
\* written as itself where a string of this module can hold it, and is named
\* by its code point otherwise: "U+2028" is the one character U+2028 and
\* "U+0060" the grave accent.
\*
\* The characters str.strip() and str.split() take for whitespace
\* (str.isspace).
Whitespace ==
  {"\t", "\n", "", "\f", "\r", "", "", "", "", " ", "", " ", " ",
   "U+2000", "U+2001", "U+2002", "U+2003", "U+2004", "U+2005", "U+2006",
   "U+2007", "U+2008", "U+2009", "U+200A", "U+2028", "U+2029", "U+202F",
   "U+205F", "U+3000"}

Min(a, b) == IF a <= b THEN a ELSE b

Max(a, b) == IF a >= b THEN a ELSE b

\* s[:n], for a negative n too
Slice(s, n) ==
  IF n >= 0 THEN SubSeq(s, 1, Min(n, Len(s)))
  ELSE SubSeq(s, 1, Max(Len(s) + n, 0))

RECURSIVE LStrip(_)
LStrip(s) == IF s # << >> /\ Head(s) \in Whitespace THEN LStrip(Tail(s)) ELSE s

RECURSIVE RStrip(_)
RStrip(s) ==
  IF s # << >> /\ s[Len(s)] \in Whitespace
  THEN RStrip(SubSeq(s, 1, Len(s) - 1))
  ELSE s

\* str.strip()
\* Faulty variant: a strip() that strips nothing.
StripNone(s) == s

Strip(s) == RStrip(LStrip(s))

\* The atom of the character with the code point that the five hexadecimal
\* digits h give, for a character that is named: "U+0100" for "00100".
Named(h) == "U+" \o (IF SubSeq(h, 1, 1) = "0" THEN SubSeq(h, 2, 5) ELSE h)

\* The tokens of the lines of a table, each token width characters long.
Tokens(lines, width) ==
  UNION { {SubSeq(lines[k], width * (i - 1) + 1, width * i) :
             i \in 1..(Len(lines[k]) \div width)} : k \in DOMAIN lines }

\* The lower-case form of each character that has a one-character lower-case
\* form other than itself (the Unicode simple lower-case mapping Python
\* applies).  Each table holds the character and then its lower-case form:
\* both written; the first written and the second as five hexadecimal
\* digits; the first as digits and the second written; both as digits.
LowerTable ==
  LET written ==
        << "AaBbCcDdEeFfGgHhIiJjKkLlMmNnOoPpQqRrSsTtUuVvWwXxYyZzÀàÁáÂâÃãÄäÅåÆæ",
           "ÇçÈèÉéÊêËëÌìÍíÎîÏïÐðÑñÒòÓóÔôÕõÖöØøÙùÚúÛûÜüÝýÞþƂƃƄƅƇƈƋƌƎǝƑƒƘƙƠơƢƣƤƥ",
           "ƦʀƧƨƩʃƬƭƮʈƯưƱʊƲʋƳƴƵƶƷʒƸƹƼƽǄǆǅǆǇǉǈǉǊǌǋǌǍǎǏǐǑǒǓǔǕǖǗǘǙǚǛǜǞǟǠǡǢǣǤǥǦǧǨǩ",
           "ǪǫǬǭǮǯǱǳǲǳǴǵǶƕǷƿǸǹǺǻǼǽǾǿΆάΈέΉήΊίΌόΎύΏώΑαΒβΓγΔδΕεΖζΗηΘθΙιΚκΛλΜμΝνΞξ",
           "ΟοΠπΡρΤτΥυΦφΧχΨψΩωΪϊΫϋϏϗϘϙϚϛϜϝϞϟϠϡϢϣϤϥϦϧϨϩϪϫϬϭϮϯϴθϷϸϹϲϺϻҀҁҊҋҌҍҎҏҐґ",
           "ҒғҔҕҖҗҘҙҚқҜҝҞҟҠҡҢңҤҥҦҧҨҩҪҫҬҭҮүҰұҲҳҴҵҶҷҸҹҺһҼҽҾҿӀӏӁӂӃӄӅӆӇӈӉӊӋӌӍӎӐӑӒӓ",
           "ӔӕӖӗӘәӚӛӜӝӞӟӠӡӢӣӤӥӦӧӨөӪӫӬӭӮӯӰӱӲӳӴӵӶӷӸӹӺӻӼӽӾӿᎰꮀᎱꮁᎲꮂᎳꮃᎴꮄᎵꮅᎶꮆᎷꮇᎸꮈᎹꮉᎺꮊ",
           "ᎻꮋᎼꮌᎽꮍᎾꮎᎿꮏᏀꮐᏁꮑᏂꮒᏃꮓᏄꮔᏅꮕᏆꮖᏇꮗᏈꮘᏉꮙᏊꮚᏋꮛᏌꮜᏍꮝᏎꮞᏏꮟᏐꮠᏑꮡᏒꮢᏓꮣᏔꮤᏕꮥᏖꮦᏗꮧᏘꮨᏙꮩᏚꮪᏛꮫ",
           "ᏜꮬᏝꮭᏞꮮᏟꮯᏠꮰᏡꮱᏢꮲᏣꮳᏤꮴᏥꮵᏦꮶᏧꮷᏨꮸᏩꮹᏪꮺᏫꮻᏬꮼᏭꮽᏮꮾᏯꮿᏰᏸᏱᏹᏲᏺᏳᏻᏴᏼᏵᏽᲐაᲑბᲒგᲓდᲔეᲕვᲖზ",
           "ᲗთᲘიᲙკᲚლᲛმᲜნᲝოᲞპᲟჟᲠრᲡსᲢტᲣუᲤფᲥქᲦღᲧყᲨშᲩჩᲪცᲫძᲬწᲭჭᲮხᲯჯᲰჰᲱჱᲲჲᲳჳᲴჴᲵჵᲶჶᲷჷ",
           "ᲸჸᲹჹᲺჺᲽჽᲾჾᲿჿẀẁẂẃẄẅẆẇẈẉẊẋẌẍẎẏẐẑẒẓẔẕẞßẠạẢảẤấẦầẨẩẪẫẬậẮắẰằẲẳẴẵẶặẸẹẺẻẼẽ",
           "ẾếỀềỂểỄễỆệỈỉỊịỌọỎỏỐốỒồỔổỖỗỘộỚớỜờỞởỠỡỢợỤụỦủỨứỪừỬửỮữỰựỲỳỴỵỶỷỸỹỺỻỼỽỾỿ",
           "ᾈᾀᾉᾁᾊᾂᾋᾃᾌᾄᾍᾅᾎᾆᾏᾇᾘᾐᾙᾑᾚᾒᾛᾓᾜᾔᾝᾕᾞᾖᾟᾗᾨᾠᾩᾡᾪᾢᾫᾣᾬᾤᾭᾥᾮᾦᾯᾧᾸᾰᾹᾱᾼᾳῌῃῘῐῙῑῨῠῩῡῬῥ",
           "ῼῳↃↄⒶⓐⒷⓑⒸⓒⒹⓓⒺⓔⒻⓕⒼⓖⒽⓗⒾⓘⒿⓙⓀⓚⓁⓛⓂⓜⓃⓝⓄⓞⓅⓟⓆⓠⓇⓡⓈⓢⓉⓣⓊⓤⓋⓥⓌⓦⓍⓧⓎⓨⓏⓩⲀⲁⲂⲃⲄⲅⲆⲇⲈⲉ",
           "ⲊⲋⲌⲍⲎⲏⲐⲑⲒⲓⲔⲕⲖⲗⲘⲙⲚⲛⲜⲝⲞⲟⲠⲡⲢⲣⲤⲥⲦⲧⲨⲩⲪⲫⲬⲭⲮⲯⲰⲱⲲⲳⲴⲵⲶⲷⲸⲹⲺⲻⲼⲽⲾⲿⳀⳁⳂⳃⳄⳅⳆⳇⳈⳉⳊⳋ",
           "ⳌⳍⳎⳏⳐⳑⳒⳓⳔⳕⳖⳗⳘⳙⳚⳛⳜⳝⳞⳟⳠⳡⳢⳣⳫⳬⳭⳮⳲⳳꚀꚁꚂꚃꚄꚅꚆꚇꚈꚉꚊꚋꚌꚍꚎꚏꚐꚑꚒꚓꚔꚕꚖꚗꚘꚙꚚꚛꞀꞁꞂꞃꞄꞅꞆꞇ",
           "ꞋꞌꞐꞑꞒꞓꞖꞗꞘꞙꞚꞛꞜꞝꞞꞟꞠꞡꞢꞣꞤꞥꞦꞧꞨꞩꞰʞꞱʇꞲʝꞴꞵꞶꞷꞸꞹꞺꞻꞼꞽꞾꞿꟀꟁꟂꟃꟄꞔꟅʂꟆᶎꟇꟈꟉꟊꟐꟑꟖꟗꟘꟙꟵꟶ" >>
      written_named ==
        << "Ɓ00253Ɔ00254Ɖ00256Ɗ00257Ə00259Ɛ0025BƓ00260Ɣ00263Ɩ00269Ɨ00268Ɯ0026F",
           "Ɲ00272Ɵ00275Ͻ0037BϾ0037CϿ0037DႠ02D00Ⴁ02D01Ⴂ02D02Ⴃ02D03Ⴄ02D04Ⴅ02D05",
           "Ⴆ02D06Ⴇ02D07Ⴈ02D08Ⴉ02D09Ⴊ02D0AႫ02D0BႬ02D0CႭ02D0DႮ02D0EႯ02D0FႰ02D10",
           "Ⴑ02D11Ⴒ02D12Ⴓ02D13Ⴔ02D14Ⴕ02D15Ⴖ02D16Ⴗ02D17Ⴘ02D18Ⴙ02D19Ⴚ02D1AႻ02D1B",
           "Ⴜ02D1CႽ02D1DႾ02D1EႿ02D1FჀ02D20Ⴡ02D21Ⴢ02D22Ⴣ02D23Ⴤ02D24Ⴥ02D25Ⴧ02D27",
           "Ⴭ02D2DᎠ0AB70Ꭱ0AB71Ꭲ0AB72Ꭳ0AB73Ꭴ0AB74Ꭵ0AB75Ꭶ0AB76Ꭷ0AB77Ꭸ0AB78Ꭹ0AB79",
           "Ꭺ0AB7AᎫ0AB7BᎬ0AB7CᎭ0AB7DᎮ0AB7EᎯ0AB7FᾺ01F70Ά01F71Ὲ01F72Έ01F73Ὴ01F74",
           "Ή01F75Ὶ01F76Ί01F77Ὺ01F7AΎ01F7BῸ01F78Ό01F79Ὼ01F7CΏ01F7DꞍ00265Ɦ00266",
           "Ɜ0025CꞬ00261Ɬ0026CꞮ0026AꞳ0AB53" >>
      named_written ==
        << "00178ÿ00220ƞ0023Dƚ00243ƀ00244ʉ00245ʌ0037Fϳ00550ր00551ց00552ւ00553փ",
           "00554ք00555օ00556ֆ02126ω0212Ak0212Bå" >>
      named ==
        << "001000010100102001030010400105001060010700108001090010A0010B",
           "0010C0010D0010E0010F0011000111001120011300114001150011600117",
           "00118001190011A0011B0011C0011D0011E0011F00120001210012200123",
           "0012400125001260012700128001290012A0012B0012C0012D0012E0012F",
           "001320013300134001350013600137001390013A0013B0013C0013D0013E",
           "0013F0014000141001420014300144001450014600147001480014A0014B",
           "0014C0014D0014E0014F0015000151001520015300154001550015600157",
           "00158001590015A0015B0015C0015D0015E0015F00160001610016200163",
           "0016400165001660016700168001690016A0016B0016C0016D0016E0016F",
           "0017000171001720017300174001750017600177001790017A0017B0017C",
           "0017D0017E00200002010020200203002040020500206002070020800209",
           "0020A0020B0020C0020D0020E0020F002100021100212002130021400215",
           "002160021700218002190021A0021B0021C0021D0021E0021F0022200223",
           "0022400225002260022700228002290022A0022B0022C0022D0022E0022F",
           "002300023100232002330023A02C650023B0023C0023E02C660024100242",
           "002460024700248002490024A0024B0024C0024D0024E0024F0037000371",
           "003720037300376003770040000450004010045100402004520040300453",
           "004040045400405004550040600456004070045700408004580040900459",
           "0040A0045A0040B0045B0040C0045C0040D0045D0040E0045E0040F0045F",
           "004100043000411004310041200432004130043300414004340041500435",
           "00416004360041700437004180043800419004390041A0043A0041B0043B",
           "0041C0043C0041D0043D0041E0043E0041F0043F00420004400042100441",
           "004220044200423004430042400444004250044500426004460042700447",
           "004280044800429004490042A0044A0042B0044B0042C0044C0042D0044D",
           "0042E0044E0042F0044F0046000461004620046300464004650046600467",
           "00468004690046A0046B0046C0046D0046E0046F00470004710047200473",
           "0047400475004760047700478004790047A0047B0047C0047D0047E0047F",
           "005000050100502005030050400505005060050700508005090050A0050B",
           "0050C0050D0050E0050F0051000511005120051300514005150051600517",
           "00518005190051A0051B0051C0051D0051E0051F00520005210052200523",
           "0052400525005260052700528005290052A0052B0052C0052D0052E0052F",
           "005310056100532005620053300563005340056400535005650053600566",
           "0053700567005380056800539005690053A0056A0053B0056B0053C0056C",
           "0053D0056D0053E0056E0053F0056F005400057000541005710054200572",
           "005430057300544005740054500575005460057600547005770054800578",
           "00549005790054A0057A0054B0057B0054C0057C0054D0057D0054E0057E",
           "0054F0057F01E0001E0101E0201E0301E0401E0501E0601E0701E0801E09",
           "01E0A01E0B01E0C01E0D01E0E01E0F01E1001E1101E1201E1301E1401E15",
           "01E1601E1701E1801E1901E1A01E1B01E1C01E1D01E1E01E1F01E2001E21",
           "01E2201E2301E2401E2501E2601E2701E2801E2901E2A01E2B01E2C01E2D",
           "01E2E01E2F01E3001E3101E3201E3301E3401E3501E3601E3701E3801E39",
           "01E3A01E3B01E3C01E3D01E3E01E3F01E4001E4101E4201E4301E4401E45",
           "01E4601E4701E4801E4901E4A01E4B01E4C01E4D01E4E01E4F01E5001E51",
           "01E5201E5301E5401E5501E5601E5701E5801E5901E5A01E5B01E5C01E5D",
           "01E5E01E5F01E6001E6101E6201E6301E6401E6501E6601E6701E6801E69",
           "01E6A01E6B01E6C01E6D01E6E01E6F01E7001E7101E7201E7301E7401E75",
           "01E7601E7701E7801E7901E7A01E7B01E7C01E7D01E7E01E7F01F0801F00",
           "01F0901F0101F0A01F0201F0B01F0301F0C01F0401F0D01F0501F0E01F06",
           "01F0F01F0701F1801F1001F1901F1101F1A01F1201F1B01F1301F1C01F14",
           "01F1D01F1501F2801F2001F2901F2101F2A01F2201F2B01F2301F2C01F24",
           "01F2D01F2501F2E01F2601F2F01F2701F3801F3001F3901F3101F3A01F32",
           "01F3B01F3301F3C01F3401F3D01F3501F3E01F3601F3F01F3701F4801F40",
           "01F4901F4101F4A01F4201F4B01F4301F4C01F4401F4D01F4501F5901F51",
           "01F5B01F5301F5D01F5501F5F01F5701F6801F6001F6901F6101F6A01F62",
           "01F6B01F6301F6C01F6401F6D01F6501F6E01F6601F6F01F67021320214E",
           "021600217002161021710216202172021630217302164021740216502175",
           "02166021760216702177021680217802169021790216A0217A0216B0217B",
           "0216C0217C0216D0217D0216E0217E0216F0217F02C0002C3002C0102C31",
           "02C0202C3202C0302C3302C0402C3402C0502C3502C0602C3602C0702C37",
           "02C0802C3802C0902C3902C0A02C3A02C0B02C3B02C0C02C3C02C0D02C3D",
           "02C0E02C3E02C0F02C3F02C1002C4002C1102C4102C1202C4202C1302C43",
           "02C1402C4402C1502C4502C1602C4602C1702C4702C1802C4802C1902C49",
           "02C1A02C4A02C1B02C4B02C1C02C4C02C1D02C4D02C1E02C4E02C1F02C4F",
           "02C2002C5002C2102C5102C2202C5202C2302C5302C2402C5402C2502C55",
           "02C2602C5602C2702C5702C2802C5802C2902C5902C2A02C5A02C2B02C5B",
           "02C2C02C5C02C2D02C5D02C2E02C5E02C2F02C5F02C6002C6102C620026B",
           "02C6301D7D02C640027D02C6702C6802C6902C6A02C6B02C6C02C6D00251",
           "02C6E0027102C6F0025002C700025202C7202C7302C7502C7602C7E0023F",
           "02C7F002400A6400A6410A6420A6430A6440A6450A6460A6470A6480A649",
           "0A64A0A64B0A64C0A64D0A64E0A64F0A6500A6510A6520A6530A6540A655",
           "0A6560A6570A6580A6590A65A0A65B0A65C0A65D0A65E0A65F0A6600A661",
           "0A6620A6630A6640A6650A6660A6670A6680A6690A66A0A66B0A66C0A66D",
           "0A7220A7230A7240A7250A7260A7270A7280A7290A72A0A72B0A72C0A72D",
           "0A72E0A72F0A7320A7330A7340A7350A7360A7370A7380A7390A73A0A73B",
           "0A73C0A73D0A73E0A73F0A7400A7410A7420A7430A7440A7450A7460A747",
           "0A7480A7490A74A0A74B0A74C0A74D0A74E0A74F0A7500A7510A7520A753",
           "0A7540A7550A7560A7570A7580A7590A75A0A75B0A75C0A75D0A75E0A75F",
           "0A7600A7610A7620A7630A7640A7650A7660A7670A7680A7690A76A0A76B",
           "0A76C0A76D0A76E0A76F0A7790A77A0A77B0A77C0A77D01D790A77E0A77F",
           "0FF210FF410FF220FF420FF230FF430FF240FF440FF250FF450FF260FF46",
           "0FF270FF470FF280FF480FF290FF490FF2A0FF4A0FF2B0FF4B0FF2C0FF4C",
           "0FF2D0FF4D0FF2E0FF4E0FF2F0FF4F0FF300FF500FF310FF510FF320FF52",
           "0FF330FF530FF340FF540FF350FF550FF360FF560FF370FF570FF380FF58",
           "0FF390FF590FF3A0FF5A10400104281040110429104021042A104031042B",
           "104041042C104051042D104061042E104071042F10408104301040910431",
           "1040A104321040B104331040C104341040D104351040E104361040F10437",
           "10410104381041110439104121043A104131043B104141043C104151043D",
           "104161043E104171043F104181044010419104411041A104421041B10443",
           "1041C104441041D104451041E104461041F1044710420104481042110449",
           "104221044A104231044B104241044C104251044D104261044E104271044F",
           "104B0104D8104B1104D9104B2104DA104B3104DB104B4104DC104B5104DD",
           "104B6104DE104B7104DF104B8104E0104B9104E1104BA104E2104BB104E3",
           "104BC104E4104BD104E5104BE104E6104BF104E7104C0104E8104C1104E9",
           "104C2104EA104C3104EB104C4104EC104C5104ED104C6104EE104C7104EF",
           "104C8104F0104C9104F1104CA104F2104CB104F3104CC104F4104CD104F5",
           "104CE104F6104CF104F7104D0104F8104D1104F9104D2104FA104D3104FB",
           "105701059710571105981057210599105731059A105741059B105751059C",
           "105761059D105771059E105781059F10579105A01057A105A11057C105A3",
           "1057D105A41057E105A51057F105A610580105A710581105A810582105A9",
           "10583105AA10584105AB10585105AC10586105AD10587105AE10588105AF",
           "10589105B01058A105B11058C105B31058D105B41058E105B51058F105B6",
           "10590105B710591105B810592105B910594105BB10595105BC10C8010CC0",
           "10C8110CC110C8210CC210C8310CC310C8410CC410C8510CC510C8610CC6",
           "10C8710CC710C8810CC810C8910CC910C8A10CCA10C8B10CCB10C8C10CCC",
           "10C8D10CCD10C8E10CCE10C8F10CCF10C9010CD010C9110CD110C9210CD2",
           "10C9310CD310C9410CD410C9510CD510C9610CD610C9710CD710C9810CD8",
           "10C9910CD910C9A10CDA10C9B10CDB10C9C10CDC10C9D10CDD10C9E10CDE",
           "10C9F10CDF10CA010CE010CA110CE110CA210CE210CA310CE310CA410CE4",
           "10CA510CE510CA610CE610CA710CE710CA810CE810CA910CE910CAA10CEA",
           "10CAB10CEB10CAC10CEC10CAD10CED10CAE10CEE10CAF10CEF10CB010CF0",
           "10CB110CF110CB210CF2118A0118C0118A1118C1118A2118C2118A3118C3",
           "118A4118C4118A5118C5118A6118C6118A7118C7118A8118C8118A9118C9",
           "118AA118CA118AB118CB118AC118CC118AD118CD118AE118CE118AF118CF",
           "118B0118D0118B1118D1118B2118D2118B3118D3118B4118D4118B5118D5",
           "118B6118D6118B7118D7118B8118D8118B9118D9118BA118DA118BB118DB",
           "118BC118DC118BD118DD118BE118DE118BF118DF16E4016E6016E4116E61",
           "16E4216E6216E4316E6316E4416E6416E4516E6516E4616E6616E4716E67",
           "16E4816E6816E4916E6916E4A16E6A16E4B16E6B16E4C16E6C16E4D16E6D",
           "16E4E16E6E16E4F16E6F16E5016E7016E5116E7116E5216E7216E5316E73",
           "16E5416E7416E5516E7516E5616E7616E5716E7716E5816E7816E5916E79",
           "16E5A16E7A16E5B16E7B16E5C16E7C16E5D16E7D16E5E16E7E16E5F16E7F",
           "1E9001E9221E9011E9231E9021E9241E9031E9251E9041E9261E9051E927",
           "1E9061E9281E9071E9291E9081E92A1E9091E92B1E90A1E92C1E90B1E92D",
           "1E90C1E92E1E90D1E92F1E90E1E9301E90F1E9311E9101E9321E9111E933",
           "1E9121E9341E9131E9351E9141E9361E9151E9371E9161E9381E9171E939",
           "1E9181E93A1E9191E93B1E91A1E93C1E91B1E93D1E91C1E93E1E91D1E93F",
           "1E91E1E9401E91F1E9411E9201E9421E9211E943" >>
      pairs ==
        {<<SubSeq(t, 1, 1), SubSeq(t, 2, 2)>> : t \in Tokens(written, 2)}
        \cup {<<SubSeq(t, 1, 1), Named(SubSeq(t, 2, 6))>> :
                t \in Tokens(written_named, 6)}
        \cup {<<Named(SubSeq(t, 1, 5)), SubSeq(t, 6, 6)>> :
                t \in Tokens(named_written, 6)}
        \cup {<<Named(SubSeq(t, 1, 5)), Named(SubSeq(t, 6, 10))>> :
                t \in Tokens(named, 10)}
  IN [c \in {p[1] : p \in pairs} |-> (CHOOSE p \in pairs : p[1] = c)[2]]

\* table[c] for a character in the table, the character itself otherwise
Lookup(table, c) == IF c \in DOMAIN table THEN table[c] ELSE c

\* The lower-case form of one character outside the two special cases of
\* Lower (capital sigma and U+0130).
LowerChar(c) == Lookup(LowerTable, c)

\* The characters the final-sigma rule skips (Unicode Case_Ignorable), the
\* written ones and then the named ones.
CaseIgnorable ==
  LET written ==
        << "'.:^¨­¯´·¸ʰʱʲʳʴʵʶʷʸʹʺʻʼʽʾʿˀˁ˂˃˄˅ˆˇˈˉˊˋˌˍˎˏːˑ˒˓˔˕˖˗˘˙˚˛˜˝˞˟ˠˡˢˣˤ˥˦˧",
           "˨˩˪˫ˬ˭ˮ˯˰˱˲˳˴˵˶˷˸˹˺˻˼˽˾˿΄΅·҃҄҅҆҇҈҉ְ֑֖֛֢֣֤֥֦֧֪֚֭֮֒֓֔֕֗֘֙֜֝֞֟֠֡֨֩֫֬֯",
           "ֱֲֳִֵֶַָׇֹֺֻּֽֿׁׂׅׄ״ۖۗۘۙۚۛۜ۝ۣ۟۠ۡۢۤۥۦ۪ۭۧۨ۫۬ަާިީުޫެޭޮޯް߲߫߬߭߮߯߰߱߳ߴߵߺ߽",
           "࢈࢐࢑࢙࢚࢛࢘࢜࢝࢞࢟ࣉ࣏࣐࣑࣒࣓࣊࣋࣌࣍࣎ࣔࣕࣖࣗࣘࣙࣚࣛࣜࣝࣞࣟ࣠࣡࣢ࣰࣱࣲࣣࣦࣩ࣭࣮࣯ࣶࣹࣺࣤࣥࣧࣨ࣪࣫࣬ࣳࣴࣵࣷࣸࣻࣼࣽࣾࣿ",
           "ঁ়ুূৃৄ্ৢৣ৾ઁં઼ુૂૃૄૅેૈ્ૢૣૺૻૼ૽૾૿ஂீ்ಁ಼ಿೆೌ್ೢೣඁ්ිීුූັິີຶື຺ຸູົຼໆ່້໊໋໌ໍཱྀྀྂ",
           "྄ྃ྆྇ྍྎྏྐྑྒྒྷྔྕྖྗྙྚྛྜྜྷྞྟྠྡྡྷྣྤྥྦྦྷྨྩྪྫྫྷྭྮྯྰྱྲླྴྵྶྷྸྐྵྺྻྼ࿆ႂႅႆႍႝჼ឴឵ិីឹឺុូ",
           "ួំ៉៊់៌៍៎៏័៑្៓ៗ៝ᢅᢆᢩᪧ᪵᪶᪷᪸᪹᪺᪽᪰᪱᪲᪳᪴᪻᪼᪾ᪿᫀ᫃᫄᫊᫁᫂᫅᫆᫇᫈᫉᫋ᫌᫍᫎᮀᮁᮢᮣᮤᮥᮨᮩ᮫ᮬᮭ᯦ᯨᯩᯭᯯ",
           "ᯰᯱ᳔᳢᳣᳤᳥᳦᳧᳨᳕᳖᳗᳘᳙᳜᳝᳞᳟᳭᳐᳑᳒᳚᳛᳠᳴᳸᳹ᶛᶜᶝᶞᶟᶠᶡᶢᶣᶤᶥᶦᶧᶨᶩᶪᶫᶬᶭᶮᶯᶰᶱᶲᶳᶴᶵᶶᶷᶸᶹᶺᶻᶼᶽᶾᶿ",
           "᷐᷎᷺᷂᷊᷏᷹᷽᷿᷷᷸᷀᷁᷃᷄᷅᷆᷇᷈᷉᷋᷌᷑᷒ᷓᷔᷕᷖᷗᷘᷙᷚᷛᷜᷝᷞᷟᷠᷡᷢᷣᷤᷥᷦᷧᷨᷩᷪᷫᷬᷭᷮᷯᷰᷱᷲᷳᷴ᷵᷻᷾᷶᷼᷍᾽᾿",
           "῀῁῍῎῏῝῞῟῭΅`´῾ₐₑₒₓₔₕₖₗₘₙₚₛₜ⃒⃓⃘⃙⃚⃐⃑⃔⃕⃖⃗⃛⃜⃝⃞⃟⃠⃡⃢⃣⃤⃥⃦⃪⃫⃨⃬⃭⃮⃯⃧⃩⃰⳯⳰⳱ⷠⷡⷢⷣ",
           "゙゚ⷤⷥⷦⷧⷨⷩⷪⷫⷬⷭⷮⷯⷰⷱⷲⷳⷴⷵⷶⷷⷸⷹⷺⷻⷼⷽⷾⷿ゛゜ゝゞーヽヾꓸꓹꓺꓻꓼꓽꚜꚝꚞꚟ꛰꛱ꞈ꞉꞊ꟲꟳꟴꟸꟹ꣄ꣅ꣠꣡꣢꣣꣤꣥꣦",
           "꣧꣨꣩꣪꣫꣬꣭꣮꣯꣰꣱ꣿꦀꦁꦂ꦳ꦶꦷꦸꦹꦼꦽꧏꧥꧦꪴꪰꪲꪳꪷꪸꪾ꪿꫁ꫝꫬꫭꫳꫴ꫶ꯥꯨ꯭﮲﮳﮴﮵﮶﮷﮸﮹﮺﮻﮼﮽﮾﮿﯀﯁﯂﻿ﾞﾟ￣￹￺",
           "￻" >>
      named ==
        << "00060003000030100302003030030400305003060030700308003090030A0030B",
           "0030C0030D0030E0030F003100031100312003130031400315003160031700318",
           "003190031A0031B0031C0031D0031E0031F003200032100322003230032400325",
           "003260032700328003290032A0032B0032C0032D0032E0032F003300033100332",
           "003330033400335003360033700338003390033A0033B0033C0033D0033E0033F",
           "003400034100342003430034400345003460034700348003490034A0034B0034C",
           "0034D0034E0034F00350003510035200353003540035500356003570035800359",
           "0035A0035B0035C0035D0035E0035F00360003610036200363003640036500366",
           "0036700368003690036A0036B0036C0036D0036E0036F00374003750037A00559",
           "0055F006000060100602006030060400605006100061100612006130061400615",
           "006160061700618006190061A0061C006400064B0064C0064D0064E0064F00650",
           "0065100652006530065400655006560065700658006590065A0065B0065C0065D",
           "0065E0065F006700070F007110073000731007320073300734007350073600737",
           "00738007390073A0073B0073C0073D0073E0073F0074000741007420074300744",
           "00745007460074700748007490074A008160081700818008190081A0081B0081C",
           "0081D0081E0081F00820008210082200823008240082500826008270082800829",
           "0082A0082B0082C0082D008590085A0085B0090000901009020093A0093C00941",
           "009420094300944009450094600947009480094D0095100952009530095400955",
           "009560095700962009630097100A0100A0200A3C00A4100A4200A4700A4800A4B",
           "00A4C00A4D00A5100A7000A7100A7500B0100B3C00B3F00B4100B4200B4300B44",
           "00B4D00B5500B5600B6200B6300C0000C0400C3C00C3E00C3F00C4000C4600C47",
           "00C4800C4A00C4B00C4C00C4D00C5500C5600C6200C6300D0000D0100D3B00D3C",
           "00D4100D4200D4300D4400D4D00D6200D6300E3100E3400E3500E3600E3700E38",
           "00E3900E3A00E4600E4700E4800E4900E4A00E4B00E4C00E4D00E4E00F1800F19",
           "00F3500F3700F3900F7100F7200F7300F7400F7500F7600F7700F7800F7900F7A",
           "00F7B00F7C00F7D00F7E0102D0102E0102F010300103201033010340103501036",
           "01037010390103A0103D0103E01058010590105E0105F01060010710107201073",
           "010740135D0135E0135F017120171301714017320173301752017530177201773",
           "0180B0180C0180D0180E0180F0184301920019210192201927019280193201939",
           "0193A0193B01A1701A1801A1B01A5601A5801A5901A5A01A5B01A5C01A5D01A5E",
           "01A6001A6201A6501A6601A6701A6801A6901A6A01A6B01A6C01A7301A7401A75",
           "01A7601A7701A7801A7901A7A01A7B01A7C01A7F01B0001B0101B0201B0301B34",
           "01B3601B3701B3801B3901B3A01B3C01B4201B6B01B6C01B6D01B6E01B6F01B70",
           "01B7101B7201B7301C2C01C2D01C2E01C2F01C3001C3101C3201C3301C3601C37",
           "01C7801C7901C7A01C7B01C7C01C7D01D2C01D2D01D2E01D2F01D3001D3101D32",
           "01D3301D3401D3501D3601D3701D3801D3901D3A01D3B01D3C01D3D01D3E01D3F",
           "01D4001D4101D4201D4301D4401D4501D4601D4701D4801D4901D4A01D4B01D4C",
           "01D4D01D4E01D4F01D5001D5101D5201D5301D5401D5501D5601D5701D5801D59",
           "01D5A01D5B01D5C01D5D01D5E01D5F01D6001D6101D6201D6301D6401D6501D66",
           "01D6701D6801D6901D6A01D780200B0200C0200D0200E0200F020180201902024",
           "020270202A0202B0202C0202D0202E02060020610206202063020640206602067",
           "02068020690206A0206B0206C0206D0206E0206F020710207F02C7C02C7D02D6F",
           "02D7F02E2F030050302A0302B0302C0302D03031030320303303034030350303B",
           "0A0150A60C0A66F0A6700A6710A6720A6740A6750A6760A6770A6780A6790A67A",
           "0A67B0A67C0A67D0A67F0A7000A7010A7020A7030A7040A7050A7060A7070A708",
           "0A7090A70A0A70B0A70C0A70D0A70E0A70F0A7100A7110A7120A7130A7140A715",
           "0A7160A7170A7180A7190A71A0A71B0A71C0A71D0A71E0A71F0A7200A7210A770",
           "0A8020A8060A80B0A8250A8260A82C0A9260A9270A9280A9290A92A0A92B0A92C",
           "0A92D0A9470A9480A9490A94A0A94B0A94C0A94D0A94E0A94F0A9500A9510AA29",
           "0AA2A0AA2B0AA2C0AA2D0AA2E0AA310AA320AA350AA360AA430AA4C0AA700AA7C",
           "0AB5B0AB5C0AB5D0AB5E0AB5F0AB690AB6A0AB6B0FB1E0FE000FE010FE020FE03",
           "0FE040FE050FE060FE070FE080FE090FE0A0FE0B0FE0C0FE0D0FE0E0FE0F0FE13",
           "0FE200FE210FE220FE230FE240FE250FE260FE270FE280FE290FE2A0FE2B0FE2C",
           "0FE2D0FE2E0FE2F0FE520FE550FF070FF0E0FF1A0FF3E0FF400FF70101FD102E0",
           "103761037710378103791037A1078010781107821078310784107851078710788",
           "107891078A1078B1078C1078D1078E1078F107901079110792107931079410795",
           "107961079710798107991079A1079B1079C1079D1079E1079F107A0107A1107A2",
           "107A3107A4107A5107A6107A7107A8107A9107AA107AB107AC107AD107AE107AF",
           "107B0107B2107B3107B4107B5107B6107B7107B8107B9107BA10A0110A0210A03",
           "10A0510A0610A0C10A0D10A0E10A0F10A3810A3910A3A10A3F10AE510AE610D24",
           "10D2510D2610D2710EAB10EAC10F4610F4710F4810F4910F4A10F4B10F4C10F4D",
           "10F4E10F4F10F5010F8210F8310F8410F851100111038110391103A1103B1103C",
           "1103D1103E1103F11040110411104211043110441104511046110701107311074",
           "1107F1108011081110B3110B4110B5110B6110B9110BA110BD110C2110CD11100",
           "11101111021112711128111291112A1112B1112D1112E1112F111301113111132",
           "1113311134111731118011181111B6111B7111B8111B9111BA111BB111BC111BD",
           "111BE111C9111CA111CB111CC111CF1122F11230112311123411236112371123E",
           "112DF112E3112E4112E5112E6112E7112E8112E9112EA11300113011133B1133C",
           "11340113661136711368113691136A1136B1136C1137011371113721137311374",
           "11438114391143A1143B1143C1143D1143E1143F114421144311444114461145E",
           "114B3114B4114B5114B6114B7114B8114BA114BF114C0114C2114C3115B2115B3",
           "115B4115B5115BC115BD115BF115C0115DC115DD1163311634116351163611637",
           "11638116391163A1163D1163F11640116AB116AD116B0116B1116B2116B3116B4",
           "116B5116B71171D1171E1171F117221172311724117251172711728117291172A",
           "1172B1182F1183011831118321183311834118351183611837118391183A1193B",
           "1193C1193E11943119D4119D5119D6119D7119DA119DB119E011A0111A0211A03",
           "11A0411A0511A0611A0711A0811A0911A0A11A3311A3411A3511A3611A3711A38",
           "11A3B11A3C11A3D11A3E11A4711A5111A5211A5311A5411A5511A5611A5911A5A",
           "11A5B11A8A11A8B11A8C11A8D11A8E11A8F11A9011A9111A9211A9311A9411A95",
           "11A9611A9811A9911C3011C3111C3211C3311C3411C3511C3611C3811C3911C3A",
           "11C3B11C3C11C3D11C3F11C9211C9311C9411C9511C9611C9711C9811C9911C9A",
           "11C9B11C9C11C9D11C9E11C9F11CA011CA111CA211CA311CA411CA511CA611CA7",
           "11CAA11CAB11CAC11CAD11CAE11CAF11CB011CB211CB311CB511CB611D3111D32",
           "11D3311D3411D3511D3611D3A11D3C11D3D11D3F11D4011D4111D4211D4311D44",
           "11D4511D4711D9011D9111D9511D9711EF311EF41343013431134321343313434",
           "1343513436134371343816AF016AF116AF216AF316AF416B3016B3116B3216B33",
           "16B3416B3516B3616B4016B4116B4216B4316F4F16F8F16F9016F9116F9216F93",
           "16F9416F9516F9616F9716F9816F9916F9A16F9B16F9C16F9D16F9E16F9F16FE0",
           "16FE116FE316FE41AFF01AFF11AFF21AFF31AFF51AFF61AFF71AFF81AFF91AFFA",
           "1AFFB1AFFD1AFFE1BC9D1BC9E1BCA01BCA11BCA21BCA31CF001CF011CF021CF03",
           "1CF041CF051CF061CF071CF081CF091CF0A1CF0B1CF0C1CF0D1CF0E1CF0F1CF10",
           "1CF111CF121CF131CF141CF151CF161CF171CF181CF191CF1A1CF1B1CF1C1CF1D",
           "1CF1E1CF1F1CF201CF211CF221CF231CF241CF251CF261CF271CF281CF291CF2A",
           "1CF2B1CF2C1CF2D1CF301CF311CF321CF331CF341CF351CF361CF371CF381CF39",
           "1CF3A1CF3B1CF3C1CF3D1CF3E1CF3F1CF401CF411CF421CF431CF441CF451CF46",
           "1D1671D1681D1691D1731D1741D1751D1761D1771D1781D1791D17A1D17B1D17C",
           "1D17D1D17E1D17F1D1801D1811D1821D1851D1861D1871D1881D1891D18A1D18B",
           "1D1AA1D1AB1D1AC1D1AD1D2421D2431D2441DA001DA011DA021DA031DA041DA05",
           "1DA061DA071DA081DA091DA0A1DA0B1DA0C1DA0D1DA0E1DA0F1DA101DA111DA12",
           "1DA131DA141DA151DA161DA171DA181DA191DA1A1DA1B1DA1C1DA1D1DA1E1DA1F",
           "1DA201DA211DA221DA231DA241DA251DA261DA271DA281DA291DA2A1DA2B1DA2C",
           "1DA2D1DA2E1DA2F1DA301DA311DA321DA331DA341DA351DA361DA3B1DA3C1DA3D",
           "1DA3E1DA3F1DA401DA411DA421DA431DA441DA451DA461DA471DA481DA491DA4A",
           "1DA4B1DA4C1DA4D1DA4E1DA4F1DA501DA511DA521DA531DA541DA551DA561DA57",
           "1DA581DA591DA5A1DA5B1DA5C1DA5D1DA5E1DA5F1DA601DA611DA621DA631DA64",
           "1DA651DA661DA671DA681DA691DA6A1DA6B1DA6C1DA751DA841DA9B1DA9C1DA9D",
           "1DA9E1DA9F1DAA11DAA21DAA31DAA41DAA51DAA61DAA71DAA81DAA91DAAA1DAAB",
           "1DAAC1DAAD1DAAE1DAAF1E0001E0011E0021E0031E0041E0051E0061E0081E009",
           "1E00A1E00B1E00C1E00D1E00E1E00F1E0101E0111E0121E0131E0141E0151E016",
           "1E0171E0181E01B1E01C1E01D1E01E1E01F1E0201E0211E0231E0241E0261E027",
           "1E0281E0291E02A1E1301E1311E1321E1331E1341E1351E1361E1371E1381E139",
           "1E13A1E13B1E13C1E13D1E2AE1E2EC1E2ED1E2EE1E2EF1E8D01E8D11E8D21E8D3",
           "1E8D41E8D51E8D61E9441E9451E9461E9471E9481E9491E94A1E94B1F3FB1F3FC",
           "1F3FD1F3FE1F3FFE0001E0020E0021E0022E0023E0024E0025E0026E0027E0028",
           "E0029E002AE002BE002CE002DE002EE002FE0030E0031E0032E0033E0034E0035",
           "E0036E0037E0038E0039E003AE003BE003CE003DE003EE003FE0040E0041E0042",
           "E0043E0044E0045E0046E0047E0048E0049E004AE004BE004CE004DE004EE004F",
           "E0050E0051E0052E0053E0054E0055E0056E0057E0058E0059E005AE005BE005C",
           "E005DE005EE005FE0060E0061E0062E0063E0064E0065E0066E0067E0068E0069",
           "E006AE006BE006CE006DE006EE006FE0070E0071E0072E0073E0074E0075E0076",
           "E0077E0078E0079E007AE007BE007CE007DE007EE007FE0100E0101E0102E0103",
           "E0104E0105E0106E0107E0108E0109E010AE010BE010CE010DE010EE010FE0110",
           "E0111E0112E0113E0114E0115E0116E0117E0118E0119E011AE011BE011CE011D",
           "E011EE011FE0120E0121E0122E0123E0124E0125E0126E0127E0128E0129E012A",
           "E012BE012CE012DE012EE012FE0130E0131E0132E0133E0134E0135E0136E0137",
           "E0138E0139E013AE013BE013CE013DE013EE013FE0140E0141E0142E0143E0144",
           "E0145E0146E0147E0148E0149E014AE014BE014CE014DE014EE014FE0150E0151",
           "E0152E0153E0154E0155E0156E0157E0158E0159E015AE015BE015CE015DE015E",
           "E015FE0160E0161E0162E0163E0164E0165E0166E0167E0168E0169E016AE016B",
           "E016CE016DE016EE016FE0170E0171E0172E0173E0174E0175E0176E0177E0178",
           "E0179E017AE017BE017CE017DE017EE017FE0180E0181E0182E0183E0184E0185",
           "E0186E0187E0188E0189E018AE018BE018CE018DE018EE018FE0190E0191E0192",
           "E0193E0194E0195E0196E0197E0198E0199E019AE019BE019CE019DE019EE019F",
           "E01A0E01A1E01A2E01A3E01A4E01A5E01A6E01A7E01A8E01A9E01AAE01ABE01AC",
           "E01ADE01AEE01AFE01B0E01B1E01B2E01B3E01B4E01B5E01B6E01B7E01B8E01B9",
           "E01BAE01BBE01BCE01BDE01BEE01BFE01C0E01C1E01C2E01C3E01C4E01C5E01C6",
           "E01C7E01C8E01C9E01CAE01CBE01CCE01CDE01CEE01CFE01D0E01D1E01D2E01D3",
           "E01D4E01D5E01D6E01D7E01D8E01D9E01DAE01DBE01DCE01DDE01DEE01DFE01E0",
           "E01E1E01E2E01E3E01E4E01E5E01E6E01E7E01E8E01E9E01EAE01EBE01ECE01ED",
           "E01EEE01EF" >>
  IN Tokens(written, 1) \cup {Named(t) : t \in Tokens(named, 5)}

\* The cased characters among those the final-sigma rule does not skip, the
\* written ones and then the named ones.
Cased ==
  LET written ==
        << "ABCDEFGHIJKLMNOPQRSTUVWXYZabcdefghijklmnopqrstuvwxyzªµºÀÁÂÃÄÅÆÇÈÉÊ",
           "ËÌÍÎÏÐÑÒÓÔÕÖØÙÚÛÜÝÞßàáâãäåæçèéêëìíîïðñòóôõöøùúûüýþÿƀƁƂƃƄƅƆƇƈƉƊƋƌƍƎ",
           "ƏƐƑƒƓƔƕƖƗƘƙƚƛƜƝƞƟƠơƢƣƤƥƦƧƨƩƪƫƬƭƮƯưƱƲƳƴƵƶƷƸƹƺƼƽƾƿǄǅǆǇǈǉǊǋǌǍǎǏǐǑǒǓǔǕ",
           "ǖǗǘǙǚǛǜǝǞǟǠǡǢǣǤǥǦǧǨǩǪǫǬǭǮǯǰǱǲǳǴǵǶǷǸǹǺǻǼǽǾǿʀʁʂʃʄʅʆʇʈʉʊʋʌʍʎʏʐʑʒʓʕʖʗʘ",
           "ʙʚʛʜʝʞʟʠʡʢʣʤʥʦʧʨʩʪʫʬʭʮʯΆΈΉΊΌΎΏΐΑΒΓΔΕΖΗΘΙΚΛΜΝΞΟΠΡΣΤΥΦΧΨΩΪΫάέήίΰαβγδ",
           "εζηθικλμνξοπρςστυφχψωϊϋόύώϏϐϑϒϓϔϕϖϗϘϙϚϛϜϝϞϟϠϡϢϣϤϥϦϧϨϩϪϫϬϭϮϯϰϱϲϳϴϵϷ",
           "ϸϹϺϻϼϽϾϿҀҁҊҋҌҍҎҏҐґҒғҔҕҖҗҘҙҚқҜҝҞҟҠҡҢңҤҥҦҧҨҩҪҫҬҭҮүҰұҲҳҴҵҶҷҸҹҺһҼҽҾҿӀӁ",
           "ӂӃӄӅӆӇӈӉӊӋӌӍӎӏӐӑӒӓӔӕӖӗӘәӚӛӜӝӞӟӠӡӢӣӤӥӦӧӨөӪӫӬӭӮӯӰӱӲӳӴӵӶӷӸӹӺӻӼӽӾӿրցւփ",
           "քօֆևֈႠႡႢႣႤႥႦႧႨႩႪႫႬႭႮႯႰႱႲႳႴႵႶႷႸႹႺႻႼႽႾႿჀჁჂჃჄჅჇჍაბგდევზთიკლმნოპჟრსტუფ",
           "ქღყშჩცძწჭხჯჰჱჲჳჴჵჶჷჸჹჺჽჾჿᎠᎡᎢᎣᎤᎥᎦᎧᎨᎩᎪᎫᎬᎭᎮᎯᎰᎱᎲᎳᎴᎵᎶᎷᎸᎹᎺᎻᎼᎽᎾᎿᏀᏁᏂᏃᏄᏅᏆᏇᏈ",
           "ᏉᏊᏋᏌᏍᏎᏏᏐᏑᏒᏓᏔᏕᏖᏗᏘᏙᏚᏛᏜᏝᏞᏟᏠᏡᏢᏣᏤᏥᏦᏧᏨᏩᏪᏫᏬᏭᏮᏯᏰᏱᏲᏳᏴᏵᏸᏹᏺᏻᏼᏽᲀᲁᲂᲃᲄᲅᲆᲇᲈᲐᲑᲒᲓᲔᲕ",
           "ᲖᲗᲘᲙᲚᲛᲜᲝᲞᲟᲠᲡᲢᲣᲤᲥᲦᲧᲨᲩᲪᲫᲬᲭᲮᲯᲰᲱᲲᲳᲴᲵᲶᲷᲸᲹᲺᲽᲾᲿᶀᶁᶂᶃᶄᶅᶆᶇᶈᶉᶊᶋᶌᶍᶎᶏᶐᶑᶒᶓᶔᶕᶖᶗᶘᶙ",
           "ᶚẀẁẂẃẄẅẆẇẈẉẊẋẌẍẎẏẐẑẒẓẔẕẖẗẘẙẚẛẜẝẞẟẠạẢảẤấẦầẨẩẪẫẬậẮắẰằẲẳẴẵẶặẸẹẺẻẼẽẾếỀ",
           "ềỂểỄễỆệỈỉỊịỌọỎỏỐốỒồỔổỖỗỘộỚớỜờỞởỠỡỢợỤụỦủỨứỪừỬửỮữỰựỲỳỴỵỶỷỸỹỺỻỼỽỾỿᾀᾁᾂ",
           "ᾃᾄᾅᾆᾇᾈᾉᾊᾋᾌᾍᾎᾏᾐᾑᾒᾓᾔᾕᾖᾗᾘᾙᾚᾛᾜᾝᾞᾟᾠᾡᾢᾣᾤᾥᾦᾧᾨᾩᾪᾫᾬᾭᾮᾯᾰᾱᾲᾳᾴᾶᾷᾸᾹᾺΆᾼιῂῃῄῆῇῈΈῊ",
           "ΉῌῐῑῒΐῖῗῘῙῚΊῠῡῢΰῤῥῦῧῨῩῪΎῬῲῳῴῶῷῸΌῺΏῼↃↄⒶⒷⒸⒹⒺⒻⒼⒽⒾⒿⓀⓁⓂⓃⓄⓅⓆⓇⓈⓉⓊⓋⓌⓍⓎⓏⓐⓑⓒ",
           "ⓓⓔⓕⓖⓗⓘⓙⓚⓛⓜⓝⓞⓟⓠⓡⓢⓣⓤⓥⓦⓧⓨⓩⲀⲁⲂⲃⲄⲅⲆⲇⲈⲉⲊⲋⲌⲍⲎⲏⲐⲑⲒⲓⲔⲕⲖⲗⲘⲙⲚⲛⲜⲝⲞⲟⲠⲡⲢⲣⲤⲥⲦⲧⲨⲩⲪ",
           "ⲫⲬⲭⲮⲯⲰⲱⲲⲳⲴⲵⲶⲷⲸⲹⲺⲻⲼⲽⲾⲿⳀⳁⳂⳃⳄⳅⳆⳇⳈⳉⳊⳋⳌⳍⳎⳏⳐⳑⳒⳓⳔⳕⳖⳗⳘⳙⳚⳛⳜⳝⳞⳟⳠⳡⳢⳣⳤⳫⳬⳭⳮⳲⳳꚀꚁ",
           "ꚂꚃꚄꚅꚆꚇꚈꚉꚊꚋꚌꚍꚎꚏꚐꚑꚒꚓꚔꚕꚖꚗꚘꚙꚚꚛꞀꞁꞂꞃꞄꞅꞆꞇꞋꞌꞍꞎꞐꞑꞒꞓꞔꞕꞖꞗꞘꞙꞚꞛꞜꞝꞞꞟꞠꞡꞢꞣꞤꞥꞦꞧꞨꞩꞪꞫ",
           "ꞬꞭꞮꞯꞰꞱꞲꞳꞴꞵꞶꞷꞸꞹꞺꞻꞼꞽꞾꞿꟀꟁꟂꟃꟄꟅꟆꟇꟈꟉꟊꟐꟑꟓꟕꟖꟗꟘꟙꟵꟶꟺꮀꮁꮂꮃꮄꮅꮆꮇꮈꮉꮊꮋꮌꮍꮎꮏꮐꮑꮒꮓꮔꮕꮖꮗ",
           "ꮘꮙꮚꮛꮜꮝꮞꮟꮠꮡꮢꮣꮤꮥꮦꮧꮨꮩꮪꮫꮬꮭꮮꮯꮰꮱꮲꮳꮴꮵꮶꮷꮸꮹꮺꮻꮼꮽꮾꮿ" >>
      named ==
        << "001000010100102001030010400105001060010700108001090010A0010B0010C",
           "0010D0010E0010F00110001110011200113001140011500116001170011800119",
           "0011A0011B0011C0011D0011E0011F00120001210012200123001240012500126",
           "0012700128001290012A0012B0012C0012D0012E0012F00130001310013200133",
           "0013400135001360013700138001390013A0013B0013C0013D0013E0013F00140",
           "0014100142001430014400145001460014700148001490014A0014B0014C0014D",
           "0014E0014F001500015100152001530015400155001560015700158001590015A",
           "0015B0015C0015D0015E0015F0016000161001620016300164001650016600167",
           "00168001690016A0016B0016C0016D0016E0016F0017000171001720017300174",
           "00175001760017700178001790017A0017B0017C0017D0017E0017F0020000201",
           "00202002030020400205002060020700208002090020A0020B0020C0020D0020E",
           "0020F002100021100212002130021400215002160021700218002190021A0021B",
           "0021C0021D0021E0021F002200022100222002230022400225002260022700228",
           "002290022A0022B0022C0022D0022E0022F002300023100232002330023400235",
           "002360023700238002390023A0023B0023C0023D0023E0023F002400024100242",
           "002430024400245002460024700248002490024A0024B0024C0024D0024E0024F",
           "002500025100252002530025400255002560025700258002590025A0025B0025C",
           "0025D0025E0025F00260002610026200263002640026500266002670026800269",
           "0026A0026B0026C0026D0026E0026F00270002710027200273002740027500276",
           "0027700278002790027A0027B0027C0027D0027E0027F00370003710037200373",
           "00376003770037B0037C0037D0037F00400004010040200403004040040500406",
           "0040700408004090040A0040B0040C0040D0040E0040F00410004110041200413",
           "0041400415004160041700418004190041A0041B0041C0041D0041E0041F00420",
           "0042100422004230042400425004260042700428004290042A0042B0042C0042D",
           "0042E0042F004300043100432004330043400435004360043700438004390043A",
           "0043B0043C0043D0043E0043F0044000441004420044300444004450044600447",
           "00448004490044A0044B0044C0044D0044E0044F0045000451004520045300454",
           "00455004560045700458004590045A0045B0045C0045D0045E0045F0046000461",
           "00462004630046400465004660046700468004690046A0046B0046C0046D0046E",
           "0046F004700047100472004730047400475004760047700478004790047A0047B",
           "0047C0047D0047E0047F005000050100502005030050400505005060050700508",
           "005090050A0050B0050C0050D0050E0050F005100051100512005130051400515",
           "005160051700518005190051A0051B0051C0051D0051E0051F005200052100522",
           "005230052400525005260052700528005290052A0052B0052C0052D0052E0052F",
           "0053100532005330053400535005360053700538005390053A0053B0053C0053D",
           "0053E0053F005400054100542005430054400545005460054700548005490054A",
           "0054B0054C0054D0054E0054F0055000551005520055300554005550055600560",
           "0056100562005630056400565005660056700568005690056A0056B0056C0056D",
           "0056E0056F005700057100572005730057400575005760057700578005790057A",
           "0057B0057C0057D0057E0057F01D0001D0101D0201D0301D0401D0501D0601D07",
           "01D0801D0901D0A01D0B01D0C01D0D01D0E01D0F01D1001D1101D1201D1301D14",
           "01D1501D1601D1701D1801D1901D1A01D1B01D1C01D1D01D1E01D1F01D2001D21",
           "01D2201D2301D2401D2501D2601D2701D2801D2901D2A01D2B01D6B01D6C01D6D",
           "01D6E01D6F01D7001D7101D7201D7301D7401D7501D7601D7701D7901D7A01D7B",
           "01D7C01D7D01D7E01D7F01E0001E0101E0201E0301E0401E0501E0601E0701E08",
           "01E0901E0A01E0B01E0C01E0D01E0E01E0F01E1001E1101E1201E1301E1401E15",
           "01E1601E1701E1801E1901E1A01E1B01E1C01E1D01E1E01E1F01E2001E2101E22",
           "01E2301E2401E2501E2601E2701E2801E2901E2A01E2B01E2C01E2D01E2E01E2F",
           "01E3001E3101E3201E3301E3401E3501E3601E3701E3801E3901E3A01E3B01E3C",
           "01E3D01E3E01E3F01E4001E4101E4201E4301E4401E4501E4601E4701E4801E49",
           "01E4A01E4B01E4C01E4D01E4E01E4F01E5001E5101E5201E5301E5401E5501E56",
           "01E5701E5801E5901E5A01E5B01E5C01E5D01E5E01E5F01E6001E6101E6201E63",
           "01E6401E6501E6601E6701E6801E6901E6A01E6B01E6C01E6D01E6E01E6F01E70",
           "01E7101E7201E7301E7401E7501E7601E7701E7801E7901E7A01E7B01E7C01E7D",
           "01E7E01E7F01F0001F0101F0201F0301F0401F0501F0601F0701F0801F0901F0A",
           "01F0B01F0C01F0D01F0E01F0F01F1001F1101F1201F1301F1401F1501F1801F19",
           "01F1A01F1B01F1C01F1D01F2001F2101F2201F2301F2401F2501F2601F2701F28",
           "01F2901F2A01F2B01F2C01F2D01F2E01F2F01F3001F3101F3201F3301F3401F35",
           "01F3601F3701F3801F3901F3A01F3B01F3C01F3D01F3E01F3F01F4001F4101F42",
           "01F4301F4401F4501F4801F4901F4A01F4B01F4C01F4D01F5001F5101F5201F53",
           "01F5401F5501F5601F5701F5901F5B01F5D01F5F01F6001F6101F6201F6301F64",
           "01F6501F6601F6701F6801F6901F6A01F6B01F6C01F6D01F6E01F6F01F7001F71",
           "01F7201F7301F7401F7501F7601F7701F7801F7901F7A01F7B01F7C01F7D02102",
           "021070210A0210B0210C0210D0210E0210F021100211102112021130211502119",
           "0211A0211B0211C0211D0212402126021280212A0212B0212C0212D0212F02130",
           "02131021320213302134021390213C0213D0213E0213F02145021460214702148",
           "021490214E021600216102162021630216402165021660216702168021690216A",
           "0216B0216C0216D0216E0216F0217002171021720217302174021750217602177",
           "02178021790217A0217B0217C0217D0217E0217F02C0002C0102C0202C0302C04",
           "02C0502C0602C0702C0802C0902C0A02C0B02C0C02C0D02C0E02C0F02C1002C11",
           "02C1202C1302C1402C1502C1602C1702C1802C1902C1A02C1B02C1C02C1D02C1E",
           "02C1F02C2002C2102C2202C2302C2402C2502C2602C2702C2802C2902C2A02C2B",
           "02C2C02C2D02C2E02C2F02C3002C3102C3202C3302C3402C3502C3602C3702C38",
           "02C3902C3A02C3B02C3C02C3D02C3E02C3F02C4002C4102C4202C4302C4402C45",
           "02C4602C4702C4802C4902C4A02C4B02C4C02C4D02C4E02C4F02C5002C5102C52",
           "02C5302C5402C5502C5602C5702C5802C5902C5A02C5B02C5C02C5D02C5E02C5F",
           "02C6002C6102C6202C6302C6402C6502C6602C6702C6802C6902C6A02C6B02C6C",
           "02C6D02C6E02C6F02C7002C7102C7202C7302C7402C7502C7602C7702C7802C79",
           "02C7A02C7B02C7E02C7F02D0002D0102D0202D0302D0402D0502D0602D0702D08",
           "02D0902D0A02D0B02D0C02D0D02D0E02D0F02D1002D1102D1202D1302D1402D15",
           "02D1602D1702D1802D1902D1A02D1B02D1C02D1D02D1E02D1F02D2002D2102D22",
           "02D2302D2402D2502D2702D2D0A6400A6410A6420A6430A6440A6450A6460A647",
           "0A6480A6490A64A0A64B0A64C0A64D0A64E0A64F0A6500A6510A6520A6530A654",
           "0A6550A6560A6570A6580A6590A65A0A65B0A65C0A65D0A65E0A65F0A6600A661",
           "0A6620A6630A6640A6650A6660A6670A6680A6690A66A0A66B0A66C0A66D0A722",
           "0A7230A7240A7250A7260A7270A7280A7290A72A0A72B0A72C0A72D0A72E0A72F",
           "0A7300A7310A7320A7330A7340A7350A7360A7370A7380A7390A73A0A73B0A73C",
           "0A73D0A73E0A73F0A7400A7410A7420A7430A7440A7450A7460A7470A7480A749",
           "0A74A0A74B0A74C0A74D0A74E0A74F0A7500A7510A7520A7530A7540A7550A756",
           "0A7570A7580A7590A75A0A75B0A75C0A75D0A75E0A75F0A7600A7610A7620A763",
           "0A7640A7650A7660A7670A7680A7690A76A0A76B0A76C0A76D0A76E0A76F0A771",
           "0A7720A7730A7740A7750A7760A7770A7780A7790A77A0A77B0A77C0A77D0A77E",
           "0A77F0AB300AB310AB320AB330AB340AB350AB360AB370AB380AB390AB3A0AB3B",
           "0AB3C0AB3D0AB3E0AB3F0AB400AB410AB420AB430AB440AB450AB460AB470AB48",
           "0AB490AB4A0AB4B0AB4C0AB4D0AB4E0AB4F0AB500AB510AB520AB530AB540AB55",
           "0AB560AB570AB580AB590AB5A0AB600AB610AB620AB630AB640AB650AB660AB67",
           "0AB680AB700AB710AB720AB730AB740AB750AB760AB770AB780AB790AB7A0AB7B",
           "0AB7C0AB7D0AB7E0AB7F0FB000FB010FB020FB030FB040FB050FB060FB130FB14",
           "0FB150FB160FB170FF210FF220FF230FF240FF250FF260FF270FF280FF290FF2A",
           "0FF2B0FF2C0FF2D0FF2E0FF2F0FF300FF310FF320FF330FF340FF350FF360FF37",
           "0FF380FF390FF3A0FF410FF420FF430FF440FF450FF460FF470FF480FF490FF4A",
           "0FF4B0FF4C0FF4D0FF4E0FF4F0FF500FF510FF520FF530FF540FF550FF560FF57",
           "0FF580FF590FF5A10400104011040210403104041040510406104071040810409",
           "1040A1040B1040C1040D1040E1040F10410104111041210413104141041510416",
           "1041710418104191041A1041B1041C1041D1041E1041F10420104211042210423",
           "1042410425104261042710428104291042A1042B1042C1042D1042E1042F10430",
           "1043110432104331043410435104361043710438104391043A1043B1043C1043D",
           "1043E1043F104401044110442104431044410445104461044710448104491044A",
           "1044B1044C1044D1044E1044F104B0104B1104B2104B3104B4104B5104B6104B7",
           "104B8104B9104BA104BB104BC104BD104BE104BF104C0104C1104C2104C3104C4",
           "104C5104C6104C7104C8104C9104CA104CB104CC104CD104CE104CF104D0104D1",
           "104D2104D3104D8104D9104DA104DB104DC104DD104DE104DF104E0104E1104E2",
           "104E3104E4104E5104E6104E7104E8104E9104EA104EB104EC104ED104EE104EF",
           "104F0104F1104F2104F3104F4104F5104F6104F7104F8104F9104FA104FB10570",
           "1057110572105731057410575105761057710578105791057A1057C1057D1057E",
           "1057F105801058110582105831058410585105861058710588105891058A1058C",
           "1058D1058E1058F10590105911059210594105951059710598105991059A1059B",
           "1059C1059D1059E1059F105A0105A1105A3105A4105A5105A6105A7105A8105A9",
           "105AA105AB105AC105AD105AE105AF105B0105B1105B3105B4105B5105B6105B7",
           "105B8105B9105BB105BC10C8010C8110C8210C8310C8410C8510C8610C8710C88",
           "10C8910C8A10C8B10C8C10C8D10C8E10C8F10C9010C9110C9210C9310C9410C95",
           "10C9610C9710C9810C9910C9A10C9B10C9C10C9D10C9E10C9F10CA010CA110CA2",
           "10CA310CA410CA510CA610CA710CA810CA910CAA10CAB10CAC10CAD10CAE10CAF",
           "10CB010CB110CB210CC010CC110CC210CC310CC410CC510CC610CC710CC810CC9",
           "10CCA10CCB10CCC10CCD10CCE10CCF10CD010CD110CD210CD310CD410CD510CD6",
           "10CD710CD810CD910CDA10CDB10CDC10CDD10CDE10CDF10CE010CE110CE210CE3",
           "10CE410CE510CE610CE710CE810CE910CEA10CEB10CEC10CED10CEE10CEF10CF0",
           "10CF110CF2118A0118A1118A2118A3118A4118A5118A6118A7118A8118A9118AA",
           "118AB118AC118AD118AE118AF118B0118B1118B2118B3118B4118B5118B6118B7",
           "118B8118B9118BA118BB118BC118BD118BE118BF118C0118C1118C2118C3118C4",
           "118C5118C6118C7118C8118C9118CA118CB118CC118CD118CE118CF118D0118D1",
           "118D2118D3118D4118D5118D6118D7118D8118D9118DA118DB118DC118DD118DE",
           "118DF16E4016E4116E4216E4316E4416E4516E4616E4716E4816E4916E4A16E4B",
           "16E4C16E4D16E4E16E4F16E5016E5116E5216E5316E5416E5516E5616E5716E58",
           "16E5916E5A16E5B16E5C16E5D16E5E16E5F16E6016E6116E6216E6316E6416E65",
           "16E6616E6716E6816E6916E6A16E6B16E6C16E6D16E6E16E6F16E7016E7116E72",
           "16E7316E7416E7516E7616E7716E7816E7916E7A16E7B16E7C16E7D16E7E16E7F",
           "1D4001D4011D4021D4031D4041D4051D4061D4071D4081D4091D40A1D40B1D40C",
           "1D40D1D40E1D40F1D4101D4111D4121D4131D4141D4151D4161D4171D4181D419",
           "1D41A1D41B1D41C1D41D1D41E1D41F1D4201D4211D4221D4231D4241D4251D426",
           "1D4271D4281D4291D42A1D42B1D42C1D42D1D42E1D42F1D4301D4311D4321D433",
           "1D4341D4351D4361D4371D4381D4391D43A1D43B1D43C1D43D1D43E1D43F1D440",
           "1D4411D4421D4431D4441D4451D4461D4471D4481D4491D44A1D44B1D44C1D44D",
           "1D44E1D44F1D4501D4511D4521D4531D4541D4561D4571D4581D4591D45A1D45B",
           "1D45C1D45D1D45E1D45F1D4601D4611D4621D4631D4641D4651D4661D4671D468",
           "1D4691D46A1D46B1D46C1D46D1D46E1D46F1D4701D4711D4721D4731D4741D475",
           "1D4761D4771D4781D4791D47A1D47B1D47C1D47D1D47E1D47F1D4801D4811D482",
           "1D4831D4841D4851D4861D4871D4881D4891D48A1D48B1D48C1D48D1D48E1D48F",
           "1D4901D4911D4921D4931D4941D4951D4961D4971D4981D4991D49A1D49B1D49C",
           "1D49E1D49F1D4A21D4A51D4A61D4A91D4AA1D4AB1D4AC1D4AE1D4AF1D4B01D4B1",
           "1D4B21D4B31D4B41D4B51D4B61D4B71D4B81D4B91D4BB1D4BD1D4BE1D4BF1D4C0",
           "1D4C11D4C21D4C31D4C51D4C61D4C71D4C81D4C91D4CA1D4CB1D4CC1D4CD1D4CE",
           "1D4CF1D4D01D4D11D4D21D4D31D4D41D4D51D4D61D4D71D4D81D4D91D4DA1D4DB",
           "1D4DC1D4DD1D4DE1D4DF1D4E01D4E11D4E21D4E31D4E41D4E51D4E61D4E71D4E8",
           "1D4E91D4EA1D4EB1D4EC1D4ED1D4EE1D4EF1D4F01D4F11D4F21D4F31D4F41D4F5",
           "1D4F61D4F71D4F81D4F91D4FA1D4FB1D4FC1D4FD1D4FE1D4FF1D5001D5011D502",
           "1D5031D5041D5051D5071D5081D5091D50A1D50D1D50E1D50F1D5101D5111D512",
           "1D5131D5141D5161D5171D5181D5191D51A1D51B1D51C1D51E1D51F1D5201D521",
           "1D5221D5231D5241D5251D5261D5271D5281D5291D52A1D52B1D52C1D52D1D52E",
           "1D52F1D5301D5311D5321D5331D5341D5351D5361D5371D5381D5391D53B1D53C",
           "1D53D1D53E1D5401D5411D5421D5431D5441D5461D54A1D54B1D54C1D54D1D54E",
           "1D54F1D5501D5521D5531D5541D5551D5561D5571D5581D5591D55A1D55B1D55C",
           "1D55D1D55E1D55F1D5601D5611D5621D5631D5641D5651D5661D5671D5681D569",
           "1D56A1D56B1D56C1D56D1D56E1D56F1D5701D5711D5721D5731D5741D5751D576",
           "1D5771D5781D5791D57A1D57B1D57C1D57D1D57E1D57F1D5801D5811D5821D583",
           "1D5841D5851D5861D5871D5881D5891D58A1D58B1D58C1D58D1D58E1D58F1D590",
           "1D5911D5921D5931D5941D5951D5961D5971D5981D5991D59A1D59B1D59C1D59D",
           "1D59E1D59F1D5A01D5A11D5A21D5A31D5A41D5A51D5A61D5A71D5A81D5A91D5AA",
           "1D5AB1D5AC1D5AD1D5AE1D5AF1D5B01D5B11D5B21D5B31D5B41D5B51D5B61D5B7",
           "1D5B81D5B91D5BA1D5BB1D5BC1D5BD1D5BE1D5BF1D5C01D5C11D5C21D5C31D5C4",
           "1D5C51D5C61D5C71D5C81D5C91D5CA1D5CB1D5CC1D5CD1D5CE1D5CF1D5D01D5D1",
           "1D5D21D5D31D5D41D5D51D5D61D5D71D5D81D5D91D5DA1D5DB1D5DC1D5DD1D5DE",
           "1D5DF1D5E01D5E11D5E21D5E31D5E41D5E51D5E61D5E71D5E81D5E91D5EA1D5EB",
           "1D5EC1D5ED1D5EE1D5EF1D5F01D5F11D5F21D5F31D5F41D5F51D5F61D5F71D5F8",
           "1D5F91D5FA1D5FB1D5FC1D5FD1D5FE1D5FF1D6001D6011D6021D6031D6041D605",
           "1D6061D6071D6081D6091D60A1D60B1D60C1D60D1D60E1D60F1D6101D6111D612",
           "1D6131D6141D6151D6161D6171D6181D6191D61A1D61B1D61C1D61D1D61E1D61F",
           "1D6201D6211D6221D6231D6241D6251D6261D6271D6281D6291D62A1D62B1D62C",
           "1D62D1D62E1D62F1D6301D6311D6321D6331D6341D6351D6361D6371D6381D639",
           "1D63A1D63B1D63C1D63D1D63E1D63F1D6401D6411D6421D6431D6441D6451D646",
           "1D6471D6481D6491D64A1D64B1D64C1D64D1D64E1D64F1D6501D6511D6521D653",
           "1D6541D6551D6561D6571D6581D6591D65A1D65B1D65C1D65D1D65E1D65F1D660",
           "1D6611D6621D6631D6641D6651D6661D6671D6681D6691D66A1D66B1D66C1D66D",
           "1D66E1D66F1D6701D6711D6721D6731D6741D6751D6761D6771D6781D6791D67A",
           "1D67B1D67C1D67D1D67E1D67F1D6801D6811D6821D6831D6841D6851D6861D687",
           "1D6881D6891D68A1D68B1D68C1D68D1D68E1D68F1D6901D6911D6921D6931D694",
           "1D6951D6961D6971D6981D6991D69A1D69B1D69C1D69D1D69E1D69F1D6A01D6A1",
           "1D6A21D6A31D6A41D6A51D6A81D6A91D6AA1D6AB1D6AC1D6AD1D6AE1D6AF1D6B0",
           "1D6B11D6B21D6B31D6B41D6B51D6B61D6B71D6B81D6B91D6BA1D6BB1D6BC1D6BD",
           "1D6BE1D6BF1D6C01D6C21D6C31D6C41D6C51D6C61D6C71D6C81D6C91D6CA1D6CB",
           "1D6CC1D6CD1D6CE1D6CF1D6D01D6D11D6D21D6D31D6D41D6D51D6D61D6D71D6D8",
           "1D6D91D6DA1D6DC1D6DD1D6DE1D6DF1D6E01D6E11D6E21D6E31D6E41D6E51D6E6",
           "1D6E71D6E81D6E91D6EA1D6EB1D6EC1D6ED1D6EE1D6EF1D6F01D6F11D6F21D6F3",
           "1D6F41D6F51D6F61D6F71D6F81D6F91D6FA1D6FC1D6FD1D6FE1D6FF1D7001D701",
           "1D7021D7031D7041D7051D7061D7071D7081D7091D70A1D70B1D70C1D70D1D70E",
           "1D70F1D7101D7111D7121D7131D7141D7161D7171D7181D7191D71A1D71B1D71C",
           "1D71D1D71E1D71F1D7201D7211D7221D7231D7241D7251D7261D7271D7281D729",
           "1D72A1D72B1D72C1D72D1D72E1D72F1D7301D7311D7321D7331D7341D7361D737",
           "1D7381D7391D73A1D73B1D73C1D73D1D73E1D73F1D7401D7411D7421D7431D744",
           "1D7451D7461D7471D7481D7491D74A1D74B1D74C1D74D1D74E1D7501D7511D752",
           "1D7531D7541D7551D7561D7571D7581D7591D75A1D75B1D75C1D75D1D75E1D75F",
           "1D7601D7611D7621D7631D7641D7651D7661D7671D7681D7691D76A1D76B1D76C",
           "1D76D1D76E1D7701D7711D7721D7731D7741D7751D7761D7771D7781D7791D77A",
           "1D77B1D77C1D77D1D77E1D77F1D7801D7811D7821D7831D7841D7851D7861D787",
           "1D7881D78A1D78B1D78C1D78D1D78E1D78F1D7901D7911D7921D7931D7941D795",
           "1D7961D7971D7981D7991D79A1D79B1D79C1D79D1D79E1D79F1D7A01D7A11D7A2",
           "1D7A31D7A41D7A51D7A61D7A71D7A81D7AA1D7AB1D7AC1D7AD1D7AE1D7AF1D7B0",
           "1D7B11D7B21D7B31D7B41D7B51D7B61D7B71D7B81D7B91D7BA1D7BB1D7BC1D7BD",
           "1D7BE1D7BF1D7C01D7C11D7C21D7C41D7C51D7C61D7C71D7C81D7C91D7CA1D7CB",
           "1DF001DF011DF021DF031DF041DF051DF061DF071DF081DF091DF0B1DF0C1DF0D",
           "1DF0E1DF0F1DF101DF111DF121DF131DF141DF151DF161DF171DF181DF191DF1A",
           "1DF1B1DF1C1DF1D1DF1E1E9001E9011E9021E9031E9041E9051E9061E9071E908",
           "1E9091E90A1E90B1E90C1E90D1E90E1E90F1E9101E9111E9121E9131E9141E915",
           "1E9161E9171E9181E9191E91A1E91B1E91C1E91D1E91E1E91F1E9201E9211E922",
           "1E9231E9241E9251E9261E9271E9281E9291E92A1E92B1E92C1E92D1E92E1E92F",
           "1E9301E9311E9321E9331E9341E9351E9361E9371E9381E9391E93A1E93B1E93C",
           "1E93D1E93E1E93F1E9401E9411E9421E9431F1301F1311F1321F1331F1341F135",
           "1F1361F1371F1381F1391F13A1F13B1F13C1F13D1F13E1F13F1F1401F1411F142",
           "1F1431F1441F1451F1461F1471F1481F1491F1501F1511F1521F1531F1541F155",
           "1F1561F1571F1581F1591F15A1F15B1F15C1F15D1F15E1F15F1F1601F1611F162",
           "1F1631F1641F1651F1661F1671F1681F1691F1701F1711F1721F1731F1741F175",
           "1F1761F1771F1781F1791F17A1F17B1F17C1F17D1F17E1F17F1F1801F1811F182",
           "1F1831F1841F1851F1861F1871F1881F189" >>
  IN Tokens(written, 1) \cup {Named(t) : t \in Tokens(named, 5)}

\* Whether the capital sigma at s[i] is final, given for each character of s
\* whether the final-sigma rule skips it and whether it is cased: the nearest
\* character before it that is not skipped is cased, and the nearest one
\* after it, if any, is not.
FinalSigma(class, i) ==
  LET before == {j \in 1..(i - 1) : ~class[j].ignorable}
      after == {j \in (i + 1)..Len(class) : ~class[j].ignorable}
  IN /\ before # {}
     /\ class[CHOOSE j \in before : \A k \in before : k <= j].cased
     /\ \/ after = {}
        \/ ~class[CHOOSE j \in after : \A k \in after : j <= k].cased

\* The lower-case form of s from s[i] on: capital sigma goes to the final or
\* the medial small sigma, U+0130 to "i" and U+0307, every other character to
\* its lower-case form.
RECURSIVE LowerFrom(_, _, _)
LowerFrom(s, class, i) ==
  IF i > Len(s) THEN << >>
  ELSE (CASE s[i] = "Σ" ->
               IF FinalSigma(class, i) THEN <<"ς">> ELSE <<"σ">>
          [] s[i] = "U+0130" -> <<"i", "U+0307">>
          [] OTHER -> <<class[i].lower>>)
       \o LowerFrom(s, class, i + 1)

\* str.lower()
Lower(s) ==
  LowerFrom(s, [i \in DOMAIN s |-> [ignorable |-> s[i] \in CaseIgnorable,
                                    cased |-> s[i] \in Cased,
                                    lower |-> LowerChar(s[i])]], 1)

\* ----------------------------------------------------------- JSON values
JStr(s) == [t |-> "str", s |-> s]

\* A number decoded from JSON (json.loads is not part of the repository): s
\* is the text str() gives for the decoded value, as one atom or character
\* by character: <<"5">> for 5, <<"100.0">> for 1e2, <<"0.0">> for 0.0 and
\* for 1e-400, <<"0">> for -0, <<"inf">> for 1e400.
JNum(s) == [t |-> "num", s |-> s]

JNull == [t |-> "null", s |-> << >>]

JAbsent == [t |-> "absent", s |-> << >>]

\* what str() gives for the three numbers equal to zero: 0, 0.0 and -0.0
ZeroNumbers ==
  { <<"0">>, <<"0.0">>, <<"-0.0">>,
    <<"0", ".", "0">>, <<"-", "0", ".", "0">> }

\* Python truthiness of a decoded JSON value
Truthy(j) ==
  CASE j.t = "str" -> j.s # << >>
    [] j.t = "num" -> j.s \notin ZeroNumbers
    [] OTHER -> FALSE

Raise(e) == [exc |-> e, val |-> << >>]

Return(v) == [exc |-> "none", val |-> v]

\* ------------------------------------------------- model client (shared)
\* One attempt of client.messages.create: "text" (a response came back),
\* "rate_limit" (anthropic.RateLimitError), "api_error" (another
\* anthropic.APIError), "other" (anything else, e.g. an empty content list).
AttemptKinds == {"text", "rate_limit", "api_error", "other"}

\* Faulty variant: a retry loop that waits one second before every retry.
RECURSIVE CallLoopFixedWait(_, _, _, _)
CallLoopFixedWait(outs, text, attempt, sleeps) ==
  IF attempt >= MaxRetries
  THEN [exc |-> "none", val |-> text, returned |-> FALSE,
        attempts |-> attempt, sleeps |-> sleeps]
  ELSE
    LET o == outs[attempt + 1] IN
    CASE o = "text" ->
           [exc |-> "none", val |-> text, returned |-> TRUE,
            attempts |-> attempt + 1, sleeps |-> sleeps]
      [] o = "rate_limit" ->
           IF attempt < MaxRetries - 1
           THEN CallLoopFixedWait(outs, text, attempt + 1, Append(sleeps, 1))
           ELSE [exc |-> "RateLimitError", val |-> << >>, returned |-> FALSE,
                 attempts |-> attempt + 1, sleeps |-> sleeps]
      [] o = "api_error" ->
           [exc |-> "APIError", val |-> << >>, returned |-> FALSE,
            attempts |-> attempt + 1, sleeps |-> sleeps]
      [] OTHER ->
           [exc |-> "IndexError", val |-> << >>, returned |-> FALSE,
            attempts |-> attempt + 1, sleeps |-> sleeps]

\* Faulty variant: a retry loop that retries any provider-side error.
RECURSIVE CallLoopRetriesApiError(_, _, _, _)
CallLoopRetriesApiError(outs, text, attempt, sleeps) ==
  IF attempt >= MaxRetries
  THEN [exc |-> "none", val |-> text, returned |-> FALSE,
        attempts |-> attempt, sleeps |-> sleeps]
  ELSE
    LET o == outs[attempt + 1] IN
    CASE o = "text" ->
           [exc |-> "none", val |-> text, returned |-> TRUE,
            attempts |-> attempt + 1, sleeps |-> sleeps]
      [] o \in {"rate_limit", "api_error"} ->
           IF attempt < MaxRetries - 1
           THEN CallLoopRetriesApiError(outs, text, attempt + 1,
                                        Append(sleeps, 2 ^ attempt))
           ELSE [exc |-> IF o = "rate_limit" THEN "RateLimitError" ELSE "APIError",
                 val |-> << >>, returned |-> FALSE,
                 attempts |-> attempt + 1, sleeps |-> sleeps]
      [] OTHER ->
           [exc |-> "IndexError", val |-> << >>, returned |-> FALSE,
            attempts |-> attempt + 1, sleeps |-> sleeps]

\* for attempt in range(max_retries): ... (the three _call_claude are the
\* same text); attempt counts the attempts made, sleeps the waits so far
\* Faulty variant: a retry loop that also waits before it gives up.
RECURSIVE CallLoopSleepsLast(_, _, _, _)
CallLoopSleepsLast(outs, text, attempt, sleeps) ==
  IF attempt >= MaxRetries
  THEN [exc |-> "none", val |-> text, returned |-> FALSE,
        attempts |-> attempt, sleeps |-> sleeps]
  ELSE
    LET o == outs[attempt + 1] IN
    CASE o = "text" ->
           [exc |-> "none", val |-> text, returned |-> TRUE,
            attempts |-> attempt + 1, sleeps |-> sleeps]
      [] o = "rate_limit" ->
           IF attempt < MaxRetries - 1
           THEN CallLoopSleepsLast(outs, text, attempt + 1,
                                   Append(sleeps, 2 ^ attempt))
           ELSE [exc |-> "RateLimitError", val |-> << >>, returned |-> FALSE,
                 attempts |-> attempt + 1, sleeps |-> Append(sleeps, 2 ^ attempt)]
      [] o = "api_error" ->
           [exc |-> "APIError", val |-> << >>, returned |-> FALSE,
            attempts |-> attempt + 1, sleeps |-> sleeps]
      [] OTHER ->
           [exc |-> "IndexError", val |-> << >>, returned |-> FALSE,
            attempts |-> attempt + 1, sleeps |-> sleeps]

RECURSIVE CallLoop(_, _, _, _)
CallLoop(outs, text, attempt, sleeps) ==
  IF attempt >= MaxRetries
  THEN [exc |-> "none", val |-> text, returned |-> FALSE,
        attempts |-> attempt, sleeps |-> sleeps]
  ELSE
    LET o == outs[attempt + 1] IN
    CASE o = "text" ->
           [exc |-> "none", val |-> text, returned |-> TRUE,
            attempts |-> attempt + 1, sleeps |-> sleeps]
      [] o = "rate_limit" ->
           IF attempt < MaxRetries - 1
           THEN CallLoop(outs, text, attempt + 1, Append(sleeps, 2 ^ attempt))
           ELSE [exc |-> "RateLimitError", val |-> << >>, returned |-> FALSE,
                 attempts |-> attempt + 1, sleeps |-> sleeps]
      [] o = "api_error" ->
           [exc |-> "APIError", val |-> << >>, returned |-> FALSE,
            attempts |-> attempt + 1, sleeps |-> sleeps]
      [] OTHER ->
           [exc |-> "IndexError", val |-> << >>, returned |-> FALSE,
            attempts |-> attempt + 1, sleeps |-> sleeps]

\* _call_claude(prompt): outs[k] is what the k-th attempt meets, text the
\* response a successful attempt carries.
CallClaude(outs, text) == CallLoop(outs, text, 0, << >>)

\* FactExtractor._call_claude(prompt)
ExtractorCallClaude(outs, text) == CallLoop(outs, text, 0, << >>)

\* Synthesizer._call_claude(prompt)
SynthesizerCallClaude(outs, text) == CallLoop(outs, text, 0, << >>)

\* --------------------------------------------------------- QueryDecomposer
\* A decomposer response: has_open / has_close say whether the text holds a
\* '[' and a ']', valid whether the text between the first '[' and the last
\* ']' is valid JSON, items the decoded array.
DecomposerResponse(o, c, v, items) ==
  [has_open |-> o, has_close |-> c, valid |-> v, items |-> items]

\* q.strip() of a truthy entry raises AttributeError unless q is a str
HasStripError(items) ==
  \E i \in 1..Len(items) : Truthy(items[i]) /\ items[i].t # "str"

KeepQuery(j) == Truthy(j) /\ j.t = "str" /\ Strip(j.s) # << >>

\* [q.strip() for q in queries if q and q.strip()]
RECURSIVE FilterQueries(_)
FilterQueries(items) ==
  IF items = << >> THEN << >>
  ELSE IF KeepQuery(Head(items))
       THEN <<Strip(Head(items).s)>> \o FilterQueries(Tail(items))
       ELSE FilterQueries(Tail(items))

\* _parse_queries(response_text)
ParseQueries(resp) ==
  IF ~resp.has_open \/ ~resp.has_close THEN Raise("ValueError")
  ELSE IF ~resp.valid THEN Raise("ValueError")
  ELSE IF HasStripError(resp.items) THEN Raise("AttributeError")
  ELSE Return(FilterQueries(resp.items))

\* decompose(question): call is the outcome of _call_claude
\* Faulty variant: a decompose that leaves out the min_queries check.
DecomposeNoFallback(question, call, minq, maxq) ==
  IF call.exc # "none" THEN <<question>>
  ELSE
    LET p == ParseQueries(call.val) IN
    IF p.exc # "none" THEN <<question>>
    ELSE IF Len(p.val) > maxq THEN Slice(p.val, maxq)
    ELSE p.val

\* Faulty variant: a decompose that answers a failure with the empty list.
DecomposeEmptyOnError(question, call, minq, maxq) ==
  IF call.exc # "none" THEN << >>
  ELSE
    LET p == ParseQueries(call.val) IN
    IF p.exc # "none" THEN << >>
    ELSE IF Len(p.val) < minq THEN <<question>>
    ELSE IF Len(p.val) > maxq THEN Slice(p.val, maxq)
    ELSE p.val

\* Faulty variant: a decompose that keeps the last max_queries entries.
DecomposeKeepsLast(question, call, minq, maxq) ==
  IF call.exc # "none" THEN <<question>>
  ELSE
    LET p == ParseQueries(call.val) IN
    IF p.exc # "none" THEN <<question>>
    ELSE IF Len(p.val) < minq THEN <<question>>
    ELSE IF Len(p.val) > maxq
    THEN SubSeq(p.val, Len(p.val) - Len(Slice(p.val, maxq)) + 1, Len(p.val))
    ELSE p.val

Decompose(question, call, minq, maxq) ==
  IF call.exc # "none" THEN <<question>>
  ELSE
    LET p == ParseQueries(call.val) IN
    IF p.exc # "none" THEN <<question>>
    ELSE IF Len(p.val) < minq THEN <<question>>
    ELSE IF Len(p.val) > maxq THEN Slice(p.val, maxq)
    ELSE p.val

\* ------------------------------------------------------------ SearchEngine
\* the three provider names SearchEngine knows
ProviderName ==
  [auto |-> <<"a", "u", "t", "o">>,
   duckduckgo |-> <<"d", "u", "c", "k", "d", "u", "c", "k", "g", "o">>,
   google |-> <<"g", "o", "o", "g", "l", "e">>]

\* SearchEngine.__init__: cfg.provider is the 'provider' entry of
\* config['search'] as written (JAbsent when the key is missing),
\* cfg.google_lib whether google-api-python-client is importable,
\* cfg.google_creds whether google_api_key and google_cse_id are both set.
\* self.provider is the entry in lower case, 'auto' for a missing key; an
\* entry that is not a string has no lower() and the constructor raises
\* AttributeError.
\* Faulty variant: a constructor that also sets up Google whenever the
\* provider is 'duckduckgo' and Google can be set up.
SearchEngineInitGoogleToo(cfg) ==
  LET provider == IF cfg.provider.t = "absent" THEN ProviderName.auto
                  ELSE Lower(cfg.provider.s)
      ddg == provider \in {ProviderName.duckduckgo, ProviderName.auto}
      wantGoogle == provider \in {ProviderName.google, ProviderName.auto,
                                 ProviderName.duckduckgo}
      googleExc == IF ~cfg.google_lib THEN "ImportError"
                   ELSE IF ~cfg.google_creds THEN "ValueError"
                   ELSE "none"
      google == wantGoogle /\ googleExc = "none"
  IN
  IF cfg.provider.t \notin {"absent", "str"}
  THEN [exc |-> "AttributeError", cause |-> "provider"]
  ELSE IF wantGoogle /\ googleExc # "none" /\ provider = ProviderName.google
  THEN [exc |-> googleExc, cause |-> "google_init"]
  ELSE IF ~ddg /\ ~google
  THEN [exc |-> "ValueError", cause |-> "no_providers"]
  ELSE [exc |-> "none", cause |-> "none", provider |-> provider,
        ddg |-> ddg, google |-> google]

\* Faulty variant: a constructor without the final no-providers check.
SearchEngineInitUnchecked(cfg) ==
  LET provider == IF cfg.provider.t = "absent" THEN ProviderName.auto
                  ELSE Lower(cfg.provider.s)
      ddg == provider \in {ProviderName.duckduckgo, ProviderName.auto}
      wantGoogle == provider \in {ProviderName.google, ProviderName.auto}
      googleExc == IF ~cfg.google_lib THEN "ImportError"
                   ELSE IF ~cfg.google_creds THEN "ValueError"
                   ELSE "none"
      google == wantGoogle /\ googleExc = "none"
  IN
  IF cfg.provider.t \notin {"absent", "str"}
  THEN [exc |-> "AttributeError", cause |-> "provider"]
  ELSE IF wantGoogle /\ googleExc # "none" /\ provider = ProviderName.google
  THEN [exc |-> googleExc, cause |-> "google_init"]
  ELSE [exc |-> "none", cause |-> "none", provider |-> provider,
        ddg |-> ddg, google |-> google]

SearchEngineInit(cfg) ==
  LET provider == IF cfg.provider.t = "absent" THEN ProviderName.auto
                  ELSE Lower(cfg.provider.s)
      ddg == provider \in {ProviderName.duckduckgo, ProviderName.auto}
      wantGoogle == provider \in {ProviderName.google, ProviderName.auto}
      googleExc == IF ~cfg.google_lib THEN "ImportError"
                   ELSE IF ~cfg.google_creds THEN "ValueError"
                   ELSE "none"
      google == wantGoogle /\ googleExc = "none"
  IN
  IF cfg.provider.t \notin {"absent", "str"}
  THEN [exc |-> "AttributeError", cause |-> "provider"]
  ELSE IF wantGoogle /\ googleExc # "none" /\ provider = ProviderName.google
  THEN [exc |-> googleExc, cause |-> "google_init"]
  ELSE IF ~ddg /\ ~google
  THEN [exc |-> "ValueError", cause |-> "no_providers"]
  ELSE [exc |-> "none", cause |-> "none", provider |-> provider,
        ddg |-> ddg, google |-> google]

\* DuckDuckGoSearchEngine.search, lines 55-92: outs[n] is what attempt n of
\* ddgs.text does, "results" (it yields res) or "exception" (it raises).
DdgMaxAttempts == 3

DdgKinds == {"results", "exception"}

\* Faulty variant: a DuckDuckGo backend that lets the last failure out.
RECURSIVE DdgLoopRaisesLast(_, _, _, _)
DdgLoopRaisesLast(outs, res, attempt, sleeps) ==
  IF attempt >= DdgMaxAttempts
  THEN [exc |-> "none", val |-> << >>, attempts |-> attempt, sleeps |-> sleeps]
  ELSE IF outs[attempt + 1] = "results"
  THEN [exc |-> "none", val |-> res, attempts |-> attempt + 1, sleeps |-> sleeps]
  ELSE IF attempt < DdgMaxAttempts - 1
  THEN DdgLoopRaisesLast(outs, res, attempt + 1, Append(sleeps, 2 ^ attempt))
  ELSE [exc |-> "Exception", val |-> << >>, attempts |-> attempt + 1,
        sleeps |-> sleeps]

\* Faulty variant: a DuckDuckGo backend that retries an empty result.
RECURSIVE DdgLoopRetriesEmpty(_, _, _, _)
DdgLoopRetriesEmpty(outs, res, attempt, sleeps) ==
  IF attempt >= DdgMaxAttempts
  THEN [exc |-> "none", val |-> << >>, attempts |-> attempt, sleeps |-> sleeps]
  ELSE IF outs[attempt + 1] = "results" /\ res # << >>
  THEN [exc |-> "none", val |-> res, attempts |-> attempt + 1, sleeps |-> sleeps]
  ELSE IF attempt < DdgMaxAttempts - 1
  THEN DdgLoopRetriesEmpty(outs, res, attempt + 1, Append(sleeps, 2 ^ attempt))
  ELSE [exc |-> "none", val |-> << >>, attempts |-> attempt + 1,
        sleeps |-> sleeps]

RECURSIVE DdgLoop(_, _, _, _)
DdgLoop(outs, res, attempt, sleeps) ==
  IF attempt >= DdgMaxAttempts
  THEN [exc |-> "none", val |-> << >>, attempts |-> attempt, sleeps |-> sleeps]
  ELSE IF outs[attempt + 1] = "results"
  THEN [exc |-> "none", val |-> res, attempts |-> attempt + 1, sleeps |-> sleeps]
  ELSE IF attempt < DdgMaxAttempts - 1
  THEN DdgLoop(outs, res, attempt + 1, Append(sleeps, 2 ^ attempt))
  ELSE [exc |-> "none", val |-> << >>, attempts |-> attempt + 1,
        sleeps |-> sleeps]

DuckDuckGoSearch(outs, res) == DdgLoop(outs, res, 0, << >>)

\* GoogleSearchEngine.search, lines 85-122. kind is what the API request
\* does: "items" (it answers with res), "exception" (it raises something
\* other than HttpError), or it raises an HttpError whose error_details is
\*   "http_error_none"    falsy;
\*   "http_error_list"    a list whose first element is a dict with a string
\*                        for 'reason', or without that key;
\*   "http_error_reason"  a list whose first element is a dict with a
\*                        'reason' that 'in' does not apply to (null, a
\*                        number);
\*   "http_error_items"   a list whose first element is not a dict;
\*   "http_error_text"    a non-empty string;
\*   "http_error_dict"    a non-empty dict (without a key 0).
\* The HttpError handler takes error_details[0], calls .get on it and tests
\* 'rateLimitExceeded' in reason (lines 108-111); what these raise leaves
\* search(), the handler being outside the try.
GoogleKinds ==
  {"items", "exception", "http_error_none", "http_error_list",
   "http_error_reason", "http_error_items", "http_error_text",
   "http_error_dict"}

GoogleSearch(kind, res) ==
  CASE kind = "items" -> Return(res)
    [] kind = "http_error_reason" -> Raise("TypeError")
    [] kind \in {"http_error_items", "http_error_text"} ->
         Raise("AttributeError")
    [] kind = "http_error_dict" -> Raise("KeyError")
    [] OTHER -> Return(<< >>)

\* SearchEngine.search(query), lines 171-201: ddg / google are what the
\* backend's own search() does for the query when it is called;
\* ddg_attempts and ddg_sleeps are the attempts and the sleeps of the
\* DuckDuckGo backend within this call (none when it is not called).
SearchEngineSearch(engine, ddg, google) ==
  LET useDdg == engine.ddg /\ engine.provider # ProviderName.google
      ddg_attempts == IF useDdg THEN ddg.attempts ELSE 0
      ddg_sleeps == IF useDdg THEN ddg.sleeps ELSE << >>
  IN
  IF useDdg /\ ddg.exc # "none"
  THEN [exc |-> ddg.exc, val |-> << >>, ddg_called |-> TRUE,
        google_called |-> FALSE, ddg_attempts |-> ddg_attempts,
        ddg_sleeps |-> ddg_sleeps]
  ELSE IF useDdg /\ ddg.val # << >>
  THEN [exc |-> "none", val |-> ddg.val, ddg_called |-> TRUE,
        google_called |-> FALSE, ddg_attempts |-> ddg_attempts,
        ddg_sleeps |-> ddg_sleeps]
  ELSE IF useDdg /\ engine.provider = ProviderName.duckduckgo
  THEN [exc |-> "none", val |-> << >>, ddg_called |-> TRUE,
        google_called |-> FALSE, ddg_attempts |-> ddg_attempts,
        ddg_sleeps |-> ddg_sleeps]
  ELSE IF engine.google
  THEN [exc |-> google.exc, val |-> google.val, ddg_called |-> useDdg,
        google_called |-> TRUE, ddg_attempts |-> ddg_attempts,
        ddg_sleeps |-> ddg_sleeps]
  ELSE [exc |-> "none", val |-> IF useDdg THEN ddg.val ELSE << >>,
        ddg_called |-> useDdg, google_called |-> FALSE,
        ddg_attempts |-> ddg_attempts, ddg_sleeps |-> ddg_sleeps]

\* ---------------------------------------------------------- ContentFetcher
\* config['fetching'].get('retry_attempts', 2)
RetryAttemptsDefault == 2
\* config['fetching'].get('max_content_length', 5000)
MaxContentLengthDefault == 5000

\* content.split()
RECURSIVE SplitWords(_, _)
SplitWords(s, word) ==
  IF s = << >> THEN (IF word = << >> THEN << >> ELSE <<word>>)
  ELSE IF Head(s) \in Whitespace
       THEN (IF word = << >> THEN << >> ELSE <<word>>) \o SplitWords(Tail(s), << >>)
       ELSE SplitWords(Tail(s), Append(word, Head(s)))

\* ' '.join(words)
RECURSIVE JoinWords(_)
JoinWords(words) ==
  IF words = << >> THEN << >>
  ELSE IF Len(words) = 1 THEN words[1]
  ELSE words[1] \o <<" ">> \o JoinWords(Tail(words))

\* lines 71-84: the text of a page that answered 200
\* Faulty variant: a fetcher that returns the extracted text whole.
TruncateKeepsAll(content, max_length) == content

Truncate(content, max_length) ==
  LET words == SplitWords(content, << >>) IN
  IF Len(words) > max_length THEN JoinWords(Slice(words, max_length)) ELSE content

\* One GET of fetch_content: "page" (200), "http404", "http403", "http4xx"
\* (another 4xx), "http5xx", "timeout", "request_error", "exception".
FetchKinds ==
  {"page", "http404", "http403", "http4xx", "http5xx", "timeout",
   "request_error", "exception"}

\* return None (exc: the exception that leaves fetch_content, "none" for none)
FetchNone(gets, sleeps) ==
  [exc |-> "none", none |-> TRUE, text |-> << >>, gets |-> gets,
   sleeps |-> sleeps]

\* Faulty variant: a fetch loop that retries a 4xx other than 404 and 403.
RECURSIVE FetchLoopRetries4xx(_, _, _, _, _, _)
FetchLoopRetries4xx(outs, extracted, retry_attempts, max_length, attempt, sleeps) ==
  IF attempt >= retry_attempts THEN FetchNone(attempt, sleeps)
  ELSE
    LET o == outs[attempt + 1] IN
    CASE o = "page" ->
           IF extracted = << >> THEN FetchNone(attempt + 1, sleeps)
           ELSE [exc |-> "none", none |-> FALSE,
                 text |-> Truncate(extracted, max_length),
                 gets |-> attempt + 1, sleeps |-> sleeps]
      [] o \in {"http5xx", "http4xx"} ->
           IF attempt < retry_attempts - 1
           THEN FetchLoopRetries4xx(outs, extracted, retry_attempts, max_length,
                                    attempt + 1, Append(sleeps, 2 ^ attempt))
           ELSE FetchLoopRetries4xx(outs, extracted, retry_attempts, max_length,
                                    attempt + 1, sleeps)
      [] o = "timeout" ->
           IF attempt < retry_attempts - 1
           THEN FetchLoopRetries4xx(outs, extracted, retry_attempts, max_length,
                                    attempt + 1, Append(sleeps, 1))
           ELSE FetchNone(attempt + 1, sleeps)
      [] OTHER -> FetchNone(attempt + 1, sleeps)

\* Faulty variant: a fetch loop without the final 'except Exception'.
RECURSIVE FetchLoopUncaught(_, _, _, _, _, _)
FetchLoopUncaught(outs, extracted, retry_attempts, max_length, attempt, sleeps) ==
  IF attempt >= retry_attempts THEN FetchNone(attempt, sleeps)
  ELSE
    LET o == outs[attempt + 1] IN
    CASE o = "page" ->
           IF extracted = << >> THEN FetchNone(attempt + 1, sleeps)
           ELSE [exc |-> "none", none |-> FALSE,
                 text |-> Truncate(extracted, max_length),
                 gets |-> attempt + 1, sleeps |-> sleeps]
      [] o = "http5xx" ->
           IF attempt < retry_attempts - 1
           THEN FetchLoopUncaught(outs, extracted, retry_attempts, max_length,
                                  attempt + 1, Append(sleeps, 2 ^ attempt))
           ELSE FetchLoopUncaught(outs, extracted, retry_attempts, max_length,
                                  attempt + 1, sleeps)
      [] o = "timeout" ->
           IF attempt < retry_attempts - 1
           THEN FetchLoopUncaught(outs, extracted, retry_attempts, max_length,
                                  attempt + 1, Append(sleeps, 1))
           ELSE FetchNone(attempt + 1, sleeps)
      [] o = "exception" ->
           [exc |-> "Exception", none |-> TRUE, text |-> << >>,
            gets |-> attempt + 1, sleeps |-> sleeps]
      [] OTHER -> FetchNone(attempt + 1, sleeps)

\* for attempt in range(self.retry_attempts): ..., lines 52-122

RECURSIVE FetchLoop(_, _, _, _, _, _)
FetchLoop(outs, extracted, retry_attempts, max_length, attempt, sleeps) ==
  IF attempt >= retry_attempts THEN FetchNone(attempt, sleeps)
  ELSE
    LET o == outs[attempt + 1] IN
    CASE o = "page" ->
           IF extracted = << >> THEN FetchNone(attempt + 1, sleeps)
           ELSE [exc |-> "none", none |-> FALSE,
                 text |-> Truncate(extracted, max_length),
                 gets |-> attempt + 1, sleeps |-> sleeps]
      [] o = "http5xx" ->
           IF attempt < retry_attempts - 1
           THEN FetchLoop(outs, extracted, retry_attempts, max_length,
                          attempt + 1, Append(sleeps, 2 ^ attempt))
           ELSE FetchLoop(outs, extracted, retry_attempts, max_length,
                          attempt + 1, sleeps)
      [] o = "timeout" ->
           IF attempt < retry_attempts - 1
           THEN FetchLoop(outs, extracted, retry_attempts, max_length,
                          attempt + 1, Append(sleeps, 1))
           ELSE FetchNone(attempt + 1, sleeps)
      [] OTHER -> FetchNone(attempt + 1, sleeps)

\* fetch_content(url): outs[k] is what the k-th GET meets, extracted the text
\* trafilatura extracts from the page (<< >> when it extracts none).
FetchContent(outs, extracted, retry_attempts, max_length) ==
  FetchLoop(outs, extracted, retry_attempts, max_length, 0, << >>)

\* ----------------------------------------------------------- FactExtractor
High == <<"h", "i", "g", "h">>

Medium == <<"m", "e", "d", "i", "u", "m">>

Low == <<"l", "o", "w">>

ValidConfidence == {High, Medium, Low}

\* Fact(claim=..., caveat=..., confidence=..., source_url=...)
Fact(claim, caveat, confidence, source_url) ==
  [claim |-> claim, caveat |-> caveat, confidence |-> confidence,
   source_url |-> source_url]

\* One entry of the 'facts' array: is_dict says whether it is a JSON object,
\* claim / caveat / confidence are its values (JAbsent for a missing key).
FactEntry(d, claim, caveat, confidence) ==
  [is_dict |-> d, claim |-> claim, caveat |-> caveat, confidence |-> confidence]

\* lines 175-195, the body of the loop over facts_data: the facts (none or
\* one) the entry adds
\* Faulty variant: a _parse_facts that keeps the confidence as given.
ParseFactRawConfidence(e, source_url) ==
  IF ~e.is_dict THEN << >>
  ELSE IF e.confidence.t \notin {"absent", "str"} THEN << >>
  ELSE
    LET claim == IF e.claim.t = "absent" THEN JStr(<< >>) ELSE e.claim
        caveat == IF e.caveat.t = "absent" THEN JNull ELSE e.caveat
        given == IF e.confidence.t = "absent" THEN Medium
                 ELSE Lower(e.confidence.s)
    IN IF Truthy(claim) THEN <<Fact(claim, caveat, given, source_url)>> ELSE << >>

ParseFact(e, source_url) ==
  IF ~e.is_dict THEN << >>
  ELSE IF e.confidence.t \notin {"absent", "str"} THEN << >>
  ELSE
    LET claim == IF e.claim.t = "absent" THEN JStr(<< >>) ELSE e.claim
        caveat == IF e.caveat.t = "absent" THEN JNull ELSE e.caveat
        given == IF e.confidence.t = "absent" THEN Medium
                 ELSE Lower(e.confidence.s)
        confidence == IF given \in ValidConfidence THEN given ELSE Medium
    IN IF Truthy(claim) THEN <<Fact(claim, caveat, confidence, source_url)>>
       ELSE << >>

\* Faulty variant: a _parse_facts that prepends instead of appending.
RECURSIVE ParseFactListReversed(_, _)
ParseFactListReversed(entries, source_url) ==
  IF entries = << >> THEN << >>
  ELSE ParseFactListReversed(Tail(entries), source_url)
         \o ParseFact(Head(entries), source_url)

\* the loop of lines 174-195 over facts_data
RECURSIVE ParseFactList(_, _)
ParseFactList(entries, source_url) ==
  IF entries = << >> THEN << >>
  ELSE ParseFact(Head(entries), source_url)
         \o ParseFactList(Tail(entries), source_url)

\* An extractor response: has_open / has_close say whether the text holds a
\* '{' and a '}', valid whether the text between the first '{' and the last
\* '}' is valid JSON, has_facts whether the object has a 'facts' key,
\* facts_is_list whether its value is an array, facts the array.
ExtractorResponse(o, c, v, k, l, facts) ==
  [has_open |-> o, has_close |-> c, valid |-> v, has_facts |-> k,
   facts_is_list |-> l, facts |-> facts]

\* _parse_facts(response_text, source_url)
ParseFacts(resp, source_url) ==
  IF ~resp.has_open \/ ~resp.has_close THEN Raise("ValueError")
  ELSE IF ~resp.valid THEN Raise("ValueError")
  ELSE IF ~resp.has_facts THEN Raise("ValueError")
  ELSE IF ~resp.facts_is_list THEN Raise("ValueError")
  ELSE Return(ParseFactList(resp.facts, source_url))

\* _extract_from_source(source, question): call is the outcome of
\* _call_claude for this source's prompt
\* Faulty variant: an _extract_from_source that attributes to a fixed url.
ExtractFromSourceStaleUrl(source, call) ==
  IF call.exc # "none" THEN Raise(call.exc)
  ELSE ParseFacts(call.val, "u1")

ExtractFromSource(source, call) ==
  IF call.exc # "none" THEN Raise(call.exc)
  ELSE ParseFacts(call.val, source.url)

\* ------------------------------------------------------------- Synthesizer
Synthesis(agreements, contradictions, gaps, answer) ==
  [agreements |-> agreements, contradictions |-> contradictions,
   gaps |-> gaps, answer |-> answer]

\* lines 52-59: the synthesis of an empty fact list
DegenerateSynthesis ==
  Synthesis(<< >>, << >>,
            << <<"No sources found with relevant information">> >>,
            JStr(<<"Unable to answer the question due to lack of sources.">>))

\* A synthesizer response: has_open / has_close / valid as for the extractor,
\* the other fields the decoded values.  contradictions_kind is what the
\* loop of lines 176-181 meets in 'contradictions':
\*   "items"         no such key, or an array of objects (the decoded
\*                   contradictions);
\*   "empty"         a value that iterates over nothing ({} or "");
\*   "not_iterable"  null, a number or a boolean: TypeError;
\*   "no_get"        elements without .get (a non-empty string, an object
\*                   with keys, an array of non-objects): AttributeError.
SynthesizerResponse(o, c, v, k, agreements, contradictions, gaps, answer) ==
  [has_open |-> o, has_close |-> c, valid |-> v, contradictions_kind |-> k,
   agreements |-> agreements, contradictions |-> contradictions,
   gaps |-> gaps, answer |-> answer]

\* Faulty variant: a _parse_synthesis without the check of 'answer'.
ParseSynthesisAnyAnswer(resp) ==
  IF ~resp.has_open \/ ~resp.has_close THEN Raise("ValueError")
  ELSE IF ~resp.valid THEN Raise("ValueError")
  ELSE IF resp.contradictions_kind = "not_iterable" THEN Raise("TypeError")
  ELSE IF resp.contradictions_kind = "no_get" THEN Raise("AttributeError")
  ELSE
    LET answer == IF resp.answer.t = "absent" THEN JStr(<< >>) ELSE resp.answer
        contradictions == IF resp.contradictions_kind = "empty" THEN << >>
                          ELSE resp.contradictions
    IN
    Return(Synthesis(resp.agreements, contradictions, resp.gaps, answer))

\* _parse_synthesis(response_text)
ParseSynthesis(resp) ==
  IF ~resp.has_open \/ ~resp.has_close THEN Raise("ValueError")
  ELSE IF ~resp.valid THEN Raise("ValueError")
  ELSE IF resp.contradictions_kind = "not_iterable" THEN Raise("TypeError")
  ELSE IF resp.contradictions_kind = "no_get" THEN Raise("AttributeError")
  ELSE
    LET answer == IF resp.answer.t = "absent" THEN JStr(<< >>) ELSE resp.answer
        contradictions == IF resp.contradictions_kind = "empty" THEN << >>
                          ELSE resp.contradictions
    IN
    IF ~Truthy(answer) THEN Raise("ValueError")
    ELSE Return(Synthesis(resp.agreements, contradictions, resp.gaps, answer))

IsHigh(f) == f.confidence = High

\* " ".join([f.claim for f in facts]), every claim a str
RECURSIVE JoinClaims(_)
JoinClaims(facts) ==
  IF facts = << >> THEN << >>
  ELSE IF Len(facts) = 1 THEN facts[1].claim.s
  ELSE facts[1].claim.s \o <<" ">> \o JoinClaims(Tail(facts))

\* str(value), as an f-string formats a claim
PyStr(j) ==
  CASE j.t \in {"str", "num"} -> j.s
    [] OTHER -> <<"N", "o", "n", "e">>

\* _fallback_synthesis(question, facts)
FallbackSynthesis(question, facts) ==
  LET high_conf == SelectSeq(facts, IsHigh)
      first == Slice(high_conf, 3)
  IN
  IF high_conf # << >>
  THEN IF \E i \in 1..Len(first) : first[i].claim.t # "str"
       THEN Raise("TypeError")
       ELSE Return(Synthesis(
              << <<"Multiple sources found">> >>, << >>,
              << <<"Detailed analysis unavailable due to synthesis error">> >>,
              JStr(<<"Based on ", ToString(Len(high_conf)),
                     " high-confidence sources: ">> \o JoinClaims(first))))
  ELSE Return(Synthesis(
         << <<"Multiple sources found">> >>, << >>,
         << <<"Detailed analysis unavailable due to synthesis error">> >>,
         JStr(<<"Multiple sources discuss this topic, but confidence levels vary. ",
                "Key points include: ">>
              \o (IF facts # << >> THEN PyStr(facts[1].claim)
                  ELSE <<"No clear consensus.">>))))

\* Faulty variant: a synthesize that calls the model for an empty fact list.
SynthesizeAlwaysCalls(question, facts, call) ==
  LET p == IF call.exc # "none" THEN Raise(call.exc) ELSE ParseSynthesis(call.val)
      r == IF p.exc = "none" THEN p ELSE FallbackSynthesis(question, facts)
  IN [exc |-> r.exc, val |-> r.val, attempts |-> call.attempts]

\* synthesize(question, facts): call is the outcome of _call_claude, consulted
\* only when there are facts; attempts counts the model attempts made.
Synthesize(question, facts, call) ==
  IF facts = << >>
  THEN [exc |-> "none", val |-> DegenerateSynthesis, attempts |-> 0]
  ELSE
    LET p == IF call.exc # "none" THEN Raise(call.exc) ELSE ParseSynthesis(call.val)
        r == IF p.exc = "none" THEN p ELSE FallbackSynthesis(question, facts)
    IN [exc |-> r.exc, val |-> r.val, attempts |-> call.attempts]

\* ------------------------------------------------------ ResearchOrchestrator
VARIABLES
  pc,                \* where the caller / research() stands
  engine,            \* self.search_engine: provider and the backends it holds
  save_intermediate, \* self.save_intermediate
  cfgMin, cfgMax,    \* decomposer.min_queries, decomposer.max_queries
  question,          \* the argument of research()
  sub_queries,       \* research(): sub_queries
  qi,                \* _search_and_fetch: index of the query being searched
  results,           \* _search_and_fetch: search_results of that query
  ri,                \* _search_and_fetch: index of the result being fetched
  all_sources,       \* _search_and_fetch: all_sources
  si,                \* extract_facts: index of the source being read
  all_facts,         \* extract_facts: all_facts
  synthesis,         \* research(): synthesis (<< >> until it is made)
  report,            \* research(): report, what it returns (<< >> if nothing)
  err,               \* the exception that left the constructor or research()
  modelCall,         \* SpecDecompose: what _call_claude gives decompose
  decompIn,          \* history: what the decomposer's model call was like
  searchLog,         \* history: the queries given to search_engine.search
  resultLog,         \* history: every result the searches returned
  fetchLog,          \* history: every result fetched and what fetch_content gave
  extractLog,        \* history: per source read, what _extract_from_source gave
  synthAttempts,     \* history: model attempts made by synthesize
  synthIn,           \* history: what the synthesizer's model call was like
  writes,            \* history: the files written
  args,              \* the arguments of the function applied on its own
  ret                \* what that function gave

vars ==
  <<pc, engine, save_intermediate, cfgMin, cfgMax, question, sub_queries, qi,
    results, ri, all_sources, si, all_facts, synthesis, report, err,
    modelCall, decompIn, searchLog, resultLog, fetchLog, extractLog,
    synthAttempts, synthIn, writes, args, ret>>

NoEngine == [provider |-> << >>, ddg |-> FALSE, google |-> FALSE]

NoError == [exc |-> "none", cause |-> "none"]

\* Source(url=..., title=..., content=..., fetch_time=...)
Source(url, title, content) == [url |-> url, title |-> title, content |-> content]

\* ResearchReport(question=..., sub_queries=..., sources=..., facts=...,
\* synthesis=..., timestamp=...)
ResearchReport(q, subs, sources, facts, syn) ==
  [question |-> q, sub_queries |-> subs, sources |-> sources, facts |-> facts,
   synthesis |-> syn]

\* ------------------------------------------------- what the world answers
Questions == { <<"q1", "?">> }

\* the 'provider' entries drawn: the three names, two of them in other
\* letter cases too, a name that is none of the three, no entry, and null
Providers ==
  { JStr(ProviderName.auto), JStr(<<"A", "U", "T", "O">>),
    JStr(ProviderName.duckduckgo),
    JStr(ProviderName.google), JStr(<<"G", "o", "o", "g", "l", "e">>),
    JStr(<<"b", "i", "n", "g">>), JAbsent, JNull }

Configs ==
  [provider : Providers, google_lib : BOOLEAN, google_creds : BOOLEAN,
   mkdir_ok : BOOLEAN, save_intermediate : BOOLEAN]

CallScripts == [1..MaxRetries -> AttemptKinds]

QA == JStr(<<"a">>)

QB == JStr(<<"\t", "b", "\n">>)

QC == JStr(<<"c", " ", "c">>)

\* The decomposer responses of the pipeline runs.
PipelineDecomposerResponses ==
  { DecomposerResponse(FALSE, FALSE, FALSE, << >>),
    DecomposerResponse(TRUE, TRUE, FALSE, << >>),
    DecomposerResponse(TRUE, TRUE, TRUE, <<QA, QB>>),
    DecomposerResponse(TRUE, TRUE, TRUE, <<QA, JNum(<<"5">>), QB, QC>>),
    DecomposerResponse(TRUE, TRUE, TRUE,
                       <<QA, JNull, QB, JStr(<<" ">>), QC, JNum(<<"0.0">>)>>),
    DecomposerResponse(TRUE, TRUE, TRUE, <<QA, QB, QC, QA, QB, QC>>) }

URLs == {"u1", "u2"}

SearchResult(url) == [url |-> url, title |-> <<"title of ", url>>]

\* the text trafilatura extracts from the page at url, when it extracts any
PageText(url) ==
  IF url = "u1" THEN <<"alpha", " ", "beta">> ELSE <<"gamma">>

\* Most results one search returns (max_results_per_query of the runs).
MaxResults == 2
\* Most results fetched in one run.
MaxFetches == 2

ResultLists(n) ==
  UNION { [1..k -> {SearchResult(u) : u \in URLs}] : k \in 0..n }

FetchScripts == [1..RetryAttemptsDefault -> FetchKinds]

DdgScripts == [1..DdgMaxAttempts -> DdgKinds]

\* what SearchEngine.__init__ reads of the configuration
SearchConfigs ==
  [provider : Providers, google_lib : BOOLEAN, google_creds : BOOLEAN]

\* What the backends do in the pipeline runs. A DuckDuckGo search that
\* fails on every attempt returns what one that finds nothing returns, and a
\* Google request that fails without raising out of search() returns what
\* one without items returns, so the runs draw the result lists (the empty
\* one among them) and one of the failures that raise.
PipelineDdgScript == [n \in 1..DdgMaxAttempts |-> "results"]

PipelineGoogleKinds == {"items", "http_error_text"}

EHigh == FactEntry(TRUE, JStr(<<"claim one">>), JNull, JStr(High))

EUpper ==
  FactEntry(TRUE, JStr(<<"claim two">>), JStr(<<"a caveat">>),
            JStr(<<"H", "i", "G", "h">>))

EBogus ==
  FactEntry(TRUE, JStr(<<"claim three">>), JAbsent,
            JStr(<<"H", "Í", "G", "H">>))

EEmpty == FactEntry(TRUE, JStr(<< >>), JNull, JStr(Low))

ELow == FactEntry(TRUE, JStr(<<"claim four">>), JNull, JStr(Low))

ENullConfidence == FactEntry(TRUE, JStr(<<"claim five">>), JNull, JNull)

ENumberClaim == FactEntry(TRUE, JNum(<<"5">>), JNull, JStr(High))

EZeroClaim == FactEntry(TRUE, JNum(<<"0.0">>), JNull, JStr(High))

ENotDict == FactEntry(FALSE, JAbsent, JAbsent, JAbsent)

\* The extractor responses of the pipeline runs.
PipelineExtractorResponses ==
  { ExtractorResponse(FALSE, FALSE, FALSE, FALSE, FALSE, << >>),
    ExtractorResponse(TRUE, TRUE, FALSE, FALSE, FALSE, << >>),
    ExtractorResponse(TRUE, TRUE, TRUE, FALSE, FALSE, << >>),
    ExtractorResponse(TRUE, TRUE, TRUE, TRUE, FALSE, << >>),
    ExtractorResponse(TRUE, TRUE, TRUE, TRUE, TRUE, << >>),
    ExtractorResponse(TRUE, TRUE, TRUE, TRUE, TRUE, <<EUpper>>),
    ExtractorResponse(TRUE, TRUE, TRUE, TRUE, TRUE,
                      <<EBogus, EEmpty, EZeroClaim, ELow>>),
    ExtractorResponse(TRUE, TRUE, TRUE, TRUE, TRUE,
                      <<ENullConfidence, ENumberClaim, ENotDict>>) }

ModelAnswer == JStr(<<"the model's answer">>)

\* The synthesizer responses of the pipeline runs.
PipelineSynthesizerResponses ==
  { SynthesizerResponse(FALSE, FALSE, FALSE, "items", << >>, << >>, << >>, JAbsent),
    SynthesizerResponse(TRUE, TRUE, TRUE, "no_get", << >>, << >>, << >>,
                        ModelAnswer),
    SynthesizerResponse(TRUE, TRUE, TRUE, "not_iterable", << >>, << >>, << >>,
                        ModelAnswer),
    SynthesizerResponse(TRUE, TRUE, TRUE, "empty", << >>, << >>, << >>,
                        ModelAnswer),
    SynthesizerResponse(TRUE, TRUE, TRUE, "items", << >>, << >>, << >>, JAbsent),
    SynthesizerResponse(TRUE, TRUE, TRUE, "items", << >>, << >>, << >>, JNull),
    SynthesizerResponse(TRUE, TRUE, TRUE, "items",
                        << <<"an agreement">> >>, << >>, << >>, JStr(<< >>)),
    SynthesizerResponse(TRUE, TRUE, TRUE, "items",
                        << <<"an agreement">> >>, << >>, << <<"a gap">> >>,
                        ModelAnswer) }

\* What _call_claude can give for one prompt, over every script of attempts.
DecomposerCalls ==
  { CallClaude(outs, resp) : outs \in CallScripts, resp \in PipelineDecomposerResponses }

ExtractorCalls ==
  { ExtractorCallClaude(outs, resp) :
      outs \in CallScripts, resp \in PipelineExtractorResponses }

SynthesizerCalls ==
  { SynthesizerCallClaude(outs, resp) :
      outs \in CallScripts, resp \in PipelineSynthesizerResponses }

\* What fetch_content can give for each URL, over every script of GETs.
FetchOutcomes ==
  [u \in URLs |->
     { FetchContent(outs, extracted, RetryAttemptsDefault, MaxContentLengthDefault) :
         outs \in FetchScripts, extracted \in {<< >>, PageText(u)} }]

\* ------------------------------------------------------ history recording
NoCall == [exc |-> "none", val |-> << >>, returned |-> FALSE, attempts |-> 0,
           sleeps |-> << >>]

NoDecompIn ==
  [raised |-> FALSE, decoded |-> FALSE, all_str |-> FALSE, number |-> FALSE]

\* What the decomposer's model call was like: it raised; a JSON array was
\* decoded from the response; every entry of the array is a string; some entry
\* is a non-zero number.
DecompInOf(call) ==
  LET decoded == call.exc = "none" /\ call.val.has_open /\ call.val.has_close
                 /\ call.val.valid
  IN [raised |-> call.exc # "none",
      decoded |-> decoded,
      all_str |-> decoded /\ \A i \in 1..Len(call.val.items) :
                                call.val.items[i].t = "str",
      number |-> decoded /\ \E i \in 1..Len(call.val.items) :
                               /\ call.val.items[i].t = "num"
                               /\ Truthy(call.val.items[i])]

NoSynthIn == [called |-> FALSE, raised |-> FALSE, decoded |-> FALSE,
              has_answer |-> FALSE]

\* What the synthesizer's model call was like: there was one (the fact list
\* was not empty); it raised; a JSON object was decoded from the response;
\* the object has a non-empty 'answer'.
SynthInOf(facts, call) ==
  LET decoded == call.exc = "none" /\ call.val.has_open /\ call.val.has_close
                 /\ call.val.valid
  IN IF facts = << >> THEN NoSynthIn
     ELSE [called |-> TRUE, raised |-> call.exc # "none", decoded |-> decoded,
           has_answer |-> decoded /\ Truthy(call.val.answer)]

\* no function is applied on its own in a run of the pipeline
NoArgs == [fn |-> "none"]

NoRet == [fn |-> "none"]

\* ----------------------------------------------------------------- actions
confVars == <<engine, save_intermediate, cfgMin, cfgMax, modelCall, args, ret>>

questionVars == <<question, sub_queries, decompIn>>

gatherVars == <<qi, results, ri, all_sources, searchLog, resultLog, fetchLog>>

extractVars == <<si, all_facts, extractLog>>

synthVars == <<synthesis, synthAttempts, synthIn>>

Init ==
  /\ pc = "new"
  /\ engine = NoEngine
  /\ save_intermediate = FALSE
  /\ cfgMin = MinQueriesDefault
  /\ cfgMax = MaxQueriesDefault
  /\ modelCall = NoCall
  /\ question = << >>
  /\ sub_queries = << >>
  /\ decompIn = NoDecompIn
  /\ qi = 0
  /\ results = << >>
  /\ ri = 0
  /\ all_sources = << >>
  /\ searchLog = << >>
  /\ resultLog = << >>
  /\ fetchLog = << >>
  /\ si = 0
  /\ all_facts = << >>
  /\ extractLog = << >>
  /\ synthesis = << >>
  /\ synthAttempts = 0
  /\ synthIn = NoSynthIn
  /\ args = NoArgs
  /\ ret = NoRet
  /\ report = << >>
  /\ err = NoError
  /\ writes = << >>

\* ResearchOrchestrator.__init__(config), lines 25-45
OrchestratorInit(cfg) ==
  LET e == SearchEngineInit(cfg) IN
  IF e.exc # "none" THEN [exc |-> e.exc, cause |-> e.cause, engine |-> NoEngine]
  ELSE IF ~cfg.mkdir_ok THEN [exc |-> "OSError", cause |-> "mkdir", engine |-> NoEngine]
  ELSE [exc |-> "none", cause |-> "none",
        engine |-> [provider |-> e.provider, ddg |-> e.ddg, google |-> e.google]]

Construct ==
  /\ pc = "new"
  /\ \E cfg \in Configs :
       LET o == OrchestratorInit(cfg) IN
       /\ pc' = IF o.exc = "none" THEN "idle" ELSE "ctor_raised"
       /\ err' = [exc |-> o.exc, cause |-> o.cause]
       /\ engine' = o.engine
       /\ save_intermediate' = (o.exc = "none" /\ cfg.save_intermediate)
  /\ UNCHANGED <<cfgMin, cfgMax, modelCall, args, ret, questionVars,
                 gatherVars, extractVars, synthVars, report, writes>>

\* research(question), lines 68-84: step 1 and the entry of _search_and_fetch
\* Faulty variant: a _search_and_fetch that goes on with the list of sources
\* the call before left.
ResearchDecomposeWithKeptSources(q, call) ==
  /\ pc = "idle"
  /\ question' = q
  /\ sub_queries' = Decompose(q, call, cfgMin, cfgMax)
  /\ decompIn' = DecompInOf(call)
  /\ pc' = "search"
  /\ qi' = 1
  /\ searchLog' = << >> /\ resultLog' = << >> /\ fetchLog' = << >>
  /\ extractLog' = << >> /\ synthAttempts' = 0 /\ synthIn' = NoSynthIn
  /\ err' = NoError
  /\ UNCHANGED <<confVars, all_sources, results, ri, si, all_facts, synthesis,
                 report, writes>>

\* q is the question asked and call the outcome of the decomposer's
\* _call_claude. The step assigns what the code assigns on the way to the
\* first search: question (the parameter), sub_queries (line 73, or 79 when
\* decompose raised), all_sources = [] (line 142) and the loop over the
\* queries (line 144). The other variables research() works with are
\* assigned further on (search_results, line 148; all_facts,
\* fact_extractor.py 55; synthesis, line 110; report, line 114): here they
\* keep whatever an earlier call left in them, so that a step that relied on
\* a value from the call before would show. The histories are those of the
\* call and start empty.
ResearchDecomposeWith(q, call) ==
  /\ pc = "idle"
  /\ question' = q
  /\ sub_queries' = Decompose(q, call, cfgMin, cfgMax)
  /\ decompIn' = DecompInOf(call)
  /\ pc' = "search"
  /\ qi' = 1
  /\ all_sources' = << >>
  /\ searchLog' = << >> /\ resultLog' = << >> /\ fetchLog' = << >>
  /\ extractLog' = << >> /\ synthAttempts' = 0 /\ synthIn' = NoSynthIn
  /\ err' = NoError
  /\ UNCHANGED <<confVars, results, ri, si, all_facts, synthesis, report,
                 writes>>

ResearchDecompose ==
  \E q \in Questions, call \in DecomposerCalls : ResearchDecomposeWith(q, call)

\* _search_and_fetch, lines 144-152: the search of one query
\* found is what search_engine.search(query) does
\* Faulty variant: a loop that searches a sub-query again when the search
\* brought nothing.
SearchWithAgainOnEmpty(found) ==
  /\ pc = "search"
  /\ qi <= Len(sub_queries)
  /\ results' = found.val
  /\ resultLog' = resultLog \o found.val
  /\ IF found.exc # "none"
     THEN /\ pc' = "raised" /\ qi' = qi /\ ri' = 0
          /\ err' = [exc |-> found.exc, cause |-> "search"]
     ELSE /\ err' = err
          /\ IF found.val = << >>
             THEN pc' = "search" /\ qi' = qi /\ ri' = 0
             ELSE pc' = "fetch" /\ qi' = qi /\ ri' = 1
  /\ searchLog' = Append(searchLog, sub_queries[qi])
  /\ UNCHANGED <<confVars, questionVars, all_sources, fetchLog, extractVars,
                 synthVars, report, writes>>

SearchWith(found) ==
  /\ pc = "search"
  /\ qi <= Len(sub_queries)
  /\ results' = found.val
  /\ resultLog' = resultLog \o found.val
  /\ IF found.exc # "none"
     THEN /\ pc' = "raised" /\ qi' = qi /\ ri' = 0
          /\ err' = [exc |-> found.exc, cause |-> "search"]
     ELSE /\ err' = err
          /\ IF found.val = << >>
             THEN pc' = "search" /\ qi' = qi + 1 /\ ri' = 0
             ELSE pc' = "fetch" /\ qi' = qi /\ ri' = 1
  /\ searchLog' = Append(searchLog, sub_queries[qi])
  /\ UNCHANGED <<confVars, questionVars, all_sources, fetchLog, extractVars,
                 synthVars, report, writes>>

Search ==
  /\ pc = "search"
  /\ \E ddgRes \in ResultLists(MaxResults), kind \in PipelineGoogleKinds,
        googleRes \in ResultLists(MaxResults) :
       LET found == SearchEngineSearch(engine,
                      DuckDuckGoSearch(PipelineDdgScript, ddgRes),
                      GoogleSearch(kind, googleRes))
       IN /\ Len(resultLog) + Len(found.val) <= MaxFetches
          /\ SearchWith(found)

ContentTruthy(content) == ~content.none /\ content.text # << >>

\* lines 156-167: what one fetched result does to all_sources
\* Faulty variant: a fetch step that makes a Source whatever was fetched.
AddSourceAlways(sources, result, content) ==
  Append(sources, Source(result.url, result.title, content.text))

\* Faulty variant: a fetch step that puts the new Source first.
AddSourceInFront(sources, result, content) ==
  IF ContentTruthy(content)
  THEN <<Source(result.url, result.title, content.text)>> \o sources
  ELSE sources

AddSource(sources, result, content) ==
  IF ContentTruthy(content)
  THEN Append(sources, Source(result.url, result.title, content.text))
  ELSE sources

\* _search_and_fetch, lines 155-167: the fetch of one result
\* Faulty variant: a loop that goes on to the next sub-query after the first
\* fetch, whatever results are left.
FetchFirstOnly ==
  /\ pc = "fetch"
  /\ \E content \in FetchOutcomes[results[ri].url] :
       /\ all_sources' = AddSource(all_sources, results[ri], content)
       /\ fetchLog' = Append(fetchLog,
            [url |-> results[ri].url, title |-> results[ri].title,
             none |-> content.none, text |-> content.text])
  /\ ri' = 0 /\ pc' = "search" /\ qi' = qi + 1
  /\ UNCHANGED <<confVars, questionVars, results, searchLog, resultLog,
                 extractVars, synthVars, report, err, writes>>

\* content is what fetch_content(url) gives for the result
FetchWith(content) ==
  /\ pc = "fetch"
  /\ all_sources' = AddSource(all_sources, results[ri], content)
  /\ fetchLog' = Append(fetchLog,
       [url |-> results[ri].url, title |-> results[ri].title,
        none |-> content.none, text |-> content.text])
  /\ IF ri < Len(results)
     THEN ri' = ri + 1 /\ pc' = "fetch" /\ qi' = qi
     ELSE ri' = 0 /\ pc' = "search" /\ qi' = qi + 1
  /\ UNCHANGED <<confVars, questionVars, results, searchLog, resultLog,
                 extractVars, synthVars, report, err, writes>>

Fetch ==
  /\ pc = "fetch"
  /\ \E content \in FetchOutcomes[results[ri].url] : FetchWith(content)

\* research(), lines 86-96, reached when _search_and_fetch has returned:
\* the no-sources check and the intermediate save. write_ok says whether the
\* file system accepts the write of _save_sources.
\* Faulty variant: a research() without the no-sources check.
SourcesCheckSkipped(sources, save, write_ok) ==
  IF save /\ ~write_ok
  THEN [exc |-> "OSError", cause |-> "save_sources", wrote |-> FALSE]
  ELSE [exc |-> "none", cause |-> "none", wrote |-> save]

SourcesCheck(sources, save, write_ok) ==
  IF sources = << >>
  THEN [exc |-> "ValueError", cause |-> "no_sources", wrote |-> FALSE]
  ELSE IF save /\ ~write_ok
  THEN [exc |-> "OSError", cause |-> "save_sources", wrote |-> FALSE]
  ELSE [exc |-> "none", cause |-> "none", wrote |-> save]

GatheredWith(write_ok) ==
  /\ pc = "search"
  /\ qi > Len(sub_queries)
  /\ LET c == SourcesCheck(all_sources, save_intermediate, write_ok) IN
     /\ pc' = IF c.exc = "none" THEN "extract" ELSE "raised"
     /\ err' = [exc |-> c.exc, cause |-> c.cause]
     /\ writes' = IF c.wrote THEN Append(writes, "sources") ELSE writes
     /\ si' = IF c.exc = "none" THEN 1 ELSE 0
     \* extract_facts is entered: all_facts = [] (fact_extractor.py 55)
     /\ all_facts' = IF c.exc = "none" THEN << >> ELSE all_facts
  /\ results' = << >>
  /\ UNCHANGED <<confVars, questionVars, qi, ri, all_sources, searchLog,
                 resultLog, fetchLog, extractLog, synthVars, report>>

Gathered == \E write_ok \in BOOLEAN : GatheredWith(write_ok)

\* extract_facts, lines 57-72: what one source does to all_facts; call is the
\* outcome of _call_claude for that source
\* Faulty variant: an extract_facts that gives up on the first failure.
AddFactsAbortOnFailure(facts, source, call) ==
  IF source.content = << >> THEN facts
  ELSE LET r == ExtractFromSource(source, call) IN
       IF r.exc = "none" THEN facts \o r.val ELSE << >>

\* Faulty variant: an extract_facts that puts a source's facts first.
AddFactsInFront(facts, source, call) ==
  IF source.content = << >> THEN facts
  ELSE LET r == ExtractFromSource(source, call) IN
       IF r.exc = "none" THEN r.val \o facts ELSE facts

AddFacts(facts, source, call) ==
  IF source.content = << >> THEN facts
  ELSE LET r == ExtractFromSource(source, call) IN
       IF r.exc = "none" THEN facts \o r.val ELSE facts

\* What the extractor's model call for one source was like: it raised or its
\* response could not be decoded (failed); the entries of the 'facts' array.
ExtractInOf(source, call) ==
  LET decoded == /\ call.exc = "none"
                 /\ call.val.has_open /\ call.val.has_close /\ call.val.valid
                 /\ call.val.has_facts /\ call.val.facts_is_list
  IN [url |-> source.url, failed |-> ~decoded,
      entries |-> IF decoded THEN call.val.facts ELSE << >>]

\* extract_facts: the extraction from one source
ExtractWith(call) ==
  /\ pc = "extract"
  /\ si <= Len(all_sources)
  /\ all_facts' = AddFacts(all_facts, all_sources[si], call)
  /\ extractLog' = Append(extractLog, ExtractInOf(all_sources[si], call))
  /\ si' = si + 1
  /\ UNCHANGED <<pc, confVars, questionVars, gatherVars, synthVars, report,
                 err, writes>>

Extract == \E call \in ExtractorCalls : ExtractWith(call)

\* research(), lines 104-110: step 5
SynthesizeWith(call) ==
  /\ pc = "extract"
  /\ si > Len(all_sources)
  /\ LET s == Synthesize(question, all_facts, call) IN
     /\ pc' = IF s.exc = "none" THEN "report" ELSE "raised"
     /\ err' = IF s.exc = "none" THEN NoError
               ELSE [exc |-> s.exc, cause |-> "fallback_synthesis"]
     /\ synthesis' = IF s.exc = "none" THEN <<s.val>> ELSE << >>
     /\ synthAttempts' = s.attempts
     /\ synthIn' = SynthInOf(all_facts, call)
  /\ UNCHANGED <<confVars, questionVars, gatherVars, extractVars, report, writes>>

SynthesizeStep == \E call \in SynthesizerCalls : SynthesizeWith(call)

\* research(), lines 114-127, and _save_report: the report is built, written
\* and returned. write_ok says whether the file system accepts the write.
\* Faulty variant: a report assembled with the question in place of the
\* sub-queries searched.
FinishWithQuestionOnly(write_ok) ==
  /\ pc = "report"
  /\ IF write_ok
     THEN /\ pc' = "returned"
          /\ report' = <<ResearchReport(question, <<question>>, all_sources,
                                        all_facts, synthesis[1])>>
          /\ writes' = Append(writes, "report")
          /\ err' = NoError
     ELSE /\ pc' = "raised"
          /\ report' = << >>
          /\ writes' = writes
          /\ err' = [exc |-> "OSError", cause |-> "save_report"]
  /\ UNCHANGED <<confVars, questionVars, gatherVars, extractVars, synthVars>>

FinishWith(write_ok) ==
  /\ pc = "report"
  /\ IF write_ok
     THEN /\ pc' = "returned"
          /\ report' = <<ResearchReport(question, sub_queries, all_sources,
                                        all_facts, synthesis[1])>>
          /\ writes' = Append(writes, "report")
          /\ err' = NoError
     ELSE /\ pc' = "raised"
          /\ report' = << >>
          /\ writes' = writes
          /\ err' = [exc |-> "OSError", cause |-> "save_report"]
  /\ UNCHANGED <<confVars, questionVars, gatherVars, extractVars, synthVars>>

Finish == \E write_ok \in BOOLEAN : FinishWith(write_ok)

Next ==
  \/ Construct
  \/ ResearchDecompose
  \/ Search
  \/ Fetch
  \/ Gathered
  \/ Extract
  \/ SynthesizeStep
  \/ Finish

Spec == Init /\ [][Next]_vars

\* --------------------------------------------- decompose as a function
CfgRange == -1..MaxCfg

DecomposeQuestions == { <<"q1", "?">>, <<" ", "a">> }

DecomposeEntries ==
  { QA, QB, JStr(<< >>), JStr(<<" ">>), JNum(<<"0.0">>), JNum(<<"5">>) }

DecomposeResponses ==
  { DecomposerResponse(o, c, FALSE, << >>) : o \in BOOLEAN, c \in BOOLEAN }
  \cup { DecomposerResponse(TRUE, TRUE, TRUE, items) :
           items \in UNION { [1..k -> DecomposeEntries] : k \in 0..MaxItems } }

DecomposeCalls ==
  { CallClaude(outs, resp) : outs \in CallScripts, resp \in DecomposeResponses }

InitDecompose ==
  /\ pc = "decompose"
  /\ engine = NoEngine
  /\ save_intermediate = FALSE
  /\ cfgMin \in CfgRange
  /\ cfgMax \in CfgRange
  /\ modelCall \in DecomposeCalls
  /\ question \in DecomposeQuestions
  /\ sub_queries = << >>
  /\ decompIn = NoDecompIn
  /\ qi = 0
  /\ results = << >>
  /\ ri = 0
  /\ all_sources = << >>
  /\ searchLog = << >>
  /\ resultLog = << >>
  /\ fetchLog = << >>
  /\ si = 0
  /\ all_facts = << >>
  /\ extractLog = << >>
  /\ synthesis = << >>
  /\ synthAttempts = 0
  /\ synthIn = NoSynthIn
  /\ args = NoArgs
  /\ ret = NoRet
  /\ report = << >>
  /\ err = NoError
  /\ writes = << >>

\* decompose(question) under the configuration and the model call drawn
DecomposeOnly ==
  /\ pc = "decompose"
  /\ sub_queries' = Decompose(question, modelCall, cfgMin, cfgMax)
  /\ decompIn' = DecompInOf(modelCall)
  /\ pc' = "decomposed"
  /\ UNCHANGED <<confVars, question, gatherVars, extractVars, synthVars,
                 report, err, writes>>

NextDecompose == DecomposeOnly

SpecDecompose == InitDecompose /\ [][NextDecompose]_vars

\* ------------------------------------------- _call_claude as a function
\* the variables of the pipeline, at rest while one function is applied
PipelineAtRest ==
  /\ engine = NoEngine
  /\ save_intermediate = FALSE
  /\ cfgMin = MinQueriesDefault
  /\ cfgMax = MaxQueriesDefault
  /\ modelCall = NoCall
  /\ question = << >>
  /\ sub_queries = << >>
  /\ decompIn = NoDecompIn
  /\ qi = 0
  /\ results = << >>
  /\ ri = 0
  /\ all_sources = << >>
  /\ searchLog = << >>
  /\ resultLog = << >>
  /\ fetchLog = << >>
  /\ si = 0
  /\ all_facts = << >>
  /\ extractLog = << >>
  /\ synthesis = << >>
  /\ synthAttempts = 0
  /\ synthIn = NoSynthIn
  /\ report = << >>
  /\ err = NoError
  /\ writes = << >>

pipelineVars ==
  <<engine, save_intermediate, cfgMin, cfgMax, modelCall, questionVars,
    gatherVars, extractVars, synthVars, report, err, writes>>

Components == {"decomposer", "extractor", "synthesizer"}

\* response.content[0].text of a successful attempt
CallTexts == { <<"response">>, << >> }

\* _call_claude(prompt) of the named component
ComponentCallClaude(component, outs, text) ==
  CASE component = "decomposer" -> CallClaude(outs, text)
    [] component = "extractor" -> ExtractorCallClaude(outs, text)
    [] component = "synthesizer" -> SynthesizerCallClaude(outs, text)

InitCall ==
  /\ pc = "call"
  /\ args \in [fn : {"_call_claude"}, component : Components,
               outs : CallScripts, text : CallTexts]
  /\ ret = NoRet
  /\ PipelineAtRest

\* _call_claude(prompt) under the script of attempts drawn
CallOnly ==
  /\ pc = "call"
  /\ ret' = ComponentCallClaude(args.component, args.outs, args.text)
  /\ pc' = "called"
  /\ UNCHANGED <<args, pipelineVars>>

NextCall == CallOnly

SpecCall == InitCall /\ [][NextCall]_vars

\* ------------------------------------------ fetch_content as a function
\* Largest retry_attempts configured.
MaxRetryCfg == 3

\* what trafilatura extracts from a page: nothing, two words, one word
FetchTexts == { << >>, <<"alpha", " ", "beta">>, <<"gamma">> }

\* max_content_length, in words; the configured value is taken as it is
\* (content_fetcher.py 28), a negative one included
MaxLengths == {-2, -1, 0, 1, MaxContentLengthDefault}

InitFetch ==
  /\ pc = "fetch_content"
  /\ args \in [fn : {"fetch_content"}, outs : [1..MaxRetryCfg -> FetchKinds],
               extracted : FetchTexts, retry_attempts : 0..MaxRetryCfg,
               max_length : MaxLengths]
  /\ ret = NoRet
  /\ PipelineAtRest

\* fetch_content(url) under the script of GETs drawn
FetchOnly ==
  /\ pc = "fetch_content"
  /\ ret' = FetchContent(args.outs, args.extracted, args.retry_attempts,
                         args.max_length)
  /\ pc' = "fetched"
  /\ UNCHANGED <<args, pipelineVars>>

NextFetch == FetchOnly

SpecFetch == InitFetch /\ [][NextFetch]_vars

\* ------------------------------------- SearchEngine as an object of its own
InitSearch ==
  /\ pc = "search_new"
  /\ args \in [fn : {"search"}, cfg : SearchConfigs, ddg_outs : DdgScripts,
               ddg_res : ResultLists(MaxResults), google_kind : GoogleKinds,
               google_res : ResultLists(MaxResults)]
  /\ ret = NoRet
  /\ PipelineAtRest

\* SearchEngine(config)
SearchConstruct ==
  /\ pc = "search_new"
  /\ LET e == SearchEngineInit(args.cfg) IN
     /\ pc' = IF e.exc = "none" THEN "search_idle" ELSE "search_ctor_raised"
     /\ err' = [exc |-> e.exc, cause |-> e.cause]
     /\ engine' = IF e.exc # "none" THEN NoEngine
                  ELSE [provider |-> e.provider, ddg |-> e.ddg,
                        google |-> e.google]
  /\ UNCHANGED <<save_intermediate, cfgMin, cfgMax, modelCall, args, ret,
                 questionVars, gatherVars, extractVars, synthVars, report,
                 writes>>

\* search(query) on the engine constructed, the backends doing what was drawn
SearchOnly ==
  /\ pc = "search_idle"
  /\ ret' = SearchEngineSearch(engine,
                               DuckDuckGoSearch(args.ddg_outs, args.ddg_res),
                               GoogleSearch(args.google_kind, args.google_res))
  /\ pc' = "searched"
  /\ UNCHANGED <<args, pipelineVars>>

NextSearch == SearchConstruct \/ SearchOnly

SpecSearch == InitSearch /\ [][NextSearch]_vars

\* ------------------------------------- the configuration as it is loaded
\* A string of the configuration is a sequence of pieces, a piece being
\* plain text (without '$', '{' or '}') or a pattern ${NAME}; env[NAME] is
\* what _get_secret(NAME) returns: a string, nothing (JNull), or, from the
\* Streamlit secrets, a value that is not a string (a number).
EnvNames == {"GOOGLE_API_KEY", "GOOGLE_CSE_ID"}

Pattern(name) ==
  IF name = "GOOGLE_API_KEY" THEN "${GOOGLE_API_KEY}" ELSE "${GOOGLE_CSE_ID}"

\* s.replace(old, new) for a pattern old: every piece old of s gives way to
\* the pieces of new, which are not looked at again
RECURSIVE ReplaceAll(_, _, _)
ReplaceAll(s, old, new) ==
  IF s = << >> THEN << >>
  ELSE (IF Head(s) = old THEN new ELSE <<Head(s)>>)
         \o ReplaceAll(Tail(s), old, new)

\* the loop of lines 158-162 over matches, the patterns found in the string
\* as it was given: each one that has a value is replaced throughout the
\* string as it is by then, so also where an earlier value brought it in;
\* a value that is not a string makes str.replace raise TypeError
RECURSIVE ReplacePatterns(_, _, _)
ReplacePatterns(s, matches, env) ==
  IF matches = << >> THEN Return(s)
  ELSE
    LET name == CHOOSE n \in EnvNames : Pattern(n) = Head(matches)
        env_value == env[name]
    IN IF env_value.t = "null" THEN ReplacePatterns(s, Tail(matches), env)
       ELSE IF env_value.t # "str" THEN Raise("TypeError")
       ELSE ReplacePatterns(ReplaceAll(s, Head(matches), env_value.s),
                            Tail(matches), env)

\* _substitute_env_vars(obj) for a value that is a string or is missing
SubstituteEnvVars(obj, env) ==
  LET IsPattern(piece) == \E n \in EnvNames : Pattern(n) = piece IN
  IF obj.t = "str"
  THEN LET r == ReplacePatterns(obj.s, SelectSeq(obj.s, IsPattern), env)
       IN IF r.exc = "none" THEN Return(JStr(r.val)) ELSE r
  ELSE Return(obj)

\* an entry of the configuration: left out, empty, a literal, the pattern of
\* its name, and the two patterns one after the other
ConfigValues(name) ==
  { JAbsent, JStr(<< >>), JStr(<<"a-literal-value">>), JStr(<<Pattern(name)>>),
    JStr(<<Pattern("GOOGLE_API_KEY"), Pattern("GOOGLE_CSE_ID")>>) }

\* what _get_secret returns for a name: nothing, the empty string, a value,
\* a value that is itself the pattern of the other name, a number
Environments ==
  { env \in [EnvNames -> {JNull, JStr(<< >>), JStr(<<"from-env">>),
                          JStr(<<Pattern("GOOGLE_CSE_ID")>>), JNum(<<"5">>)}] :
      env["GOOGLE_CSE_ID"] # JStr(<<Pattern("GOOGLE_CSE_ID")>>) }

InitConfig ==
  /\ pc = "config_raw"
  /\ args \in [fn : {"search"},
               raw : [provider : {JStr(ProviderName.auto),
                                  JStr(ProviderName.duckduckgo),
                                  JStr(ProviderName.google)},
                      google_api_key : ConfigValues("GOOGLE_API_KEY"),
                      google_cse_id : ConfigValues("GOOGLE_CSE_ID")],
               env : Environments, google_lib : BOOLEAN,
               cfg : {[provider |-> JAbsent, google_lib |-> FALSE,
                       google_creds |-> FALSE]},
               ddg_outs : DdgScripts,
               ddg_res : {<< >>, <<SearchResult("u1")>>},
               google_kind : {"items"},
               google_res : {<<SearchResult("u2")>>}]
  /\ ret = NoRet
  /\ PipelineAtRest

\* load_config substitutes the environment (a substitution that raises ends
\* it), and GoogleSearchEngine.__init__ (lines 47-57) takes the two values
\* for credentials when both are truthy
ConfigLoaded ==
  /\ pc = "config_raw"
  /\ LET api_key == SubstituteEnvVars(args.raw.google_api_key, args.env)
         cse_id == SubstituteEnvVars(args.raw.google_cse_id, args.env)
         exc == IF api_key.exc # "none" THEN api_key.exc ELSE cse_id.exc
     IN IF exc # "none"
        THEN /\ pc' = "config_raised"
             /\ err' = [exc |-> exc, cause |-> "load_config"]
             /\ UNCHANGED <<args, ret, engine, save_intermediate, cfgMin,
                            cfgMax, modelCall, questionVars, gatherVars,
                            extractVars, synthVars, report, writes>>
        ELSE /\ pc' = "search_new"
             /\ args' = [args EXCEPT !.cfg =
                           [provider |-> args.raw.provider,
                            google_lib |-> args.google_lib,
                            google_creds |-> Truthy(api_key.val)
                                             /\ Truthy(cse_id.val)]]
             /\ UNCHANGED <<ret, pipelineVars>>

NextConfig == ConfigLoaded \/ SearchConstruct \/ SearchOnly

SpecConfig == InitConfig /\ [][NextConfig]_vars

\* ------------------------------ research() twice on one orchestrator
\* The canned responses of the two runs: every collaborator answers a
\* request with the response canned for it, in the second run as in the
\* first.
AllAttempts(kind) == [n \in 1..MaxRetries |-> kind]

AllDdgAttempts(kind) == [n \in 1..DdgMaxAttempts |-> kind]

TwiceDecomposerCalls ==
  { CallClaude(AllAttempts("text"),
               DecomposerResponse(TRUE, TRUE, TRUE,
                                  <<QA, JNull, QB, JStr(<<" ">>), QC>>)),
    CallClaude(AllAttempts("rate_limit"),
               DecomposerResponse(FALSE, FALSE, FALSE, << >>)) }

\* the queries a run of these can search for
TwiceQueries == Questions \cup { <<"a">>, <<"b">>, <<"c", " ", "c">> }

TwiceEngine == [provider |-> ProviderName.auto, ddg |-> TRUE, google |-> TRUE]

\* no result from either backend; one from DuckDuckGo at once; two from
\* DuckDuckGo's second attempt
TwiceSearchOutcomes ==
  { SearchEngineSearch(TwiceEngine,
                       DuckDuckGoSearch(AllDdgAttempts("results"), << >>),
                       GoogleSearch("items", << >>)),
    SearchEngineSearch(TwiceEngine,
                       DuckDuckGoSearch(AllDdgAttempts("results"),
                                        <<SearchResult("u1")>>),
                       GoogleSearch("items", << >>)),
    SearchEngineSearch(TwiceEngine,
                       DuckDuckGoSearch([AllDdgAttempts("results")
                                           EXCEPT ![1] = "exception"],
                                        <<SearchResult("u2"), SearchResult("u1")>>),
                       GoogleSearch("items", << >>)) }

\* a page at the first GET, or nothing after every GET allowed
TwiceFetchOutcomes ==
  [u \in URLs |-> {o \in FetchOutcomes[u] : o.none <=> o.gets > 1}]

TwiceExtractorCalls ==
  { ExtractorCallClaude(AllAttempts("text"),
                        ExtractorResponse(TRUE, TRUE, TRUE, TRUE, TRUE,
                                          <<EBogus, EEmpty, EZeroClaim, ELow>>)),
    ExtractorCallClaude(AllAttempts("text"),
                        ExtractorResponse(TRUE, TRUE, TRUE, TRUE, TRUE,
                                          <<EUpper>>)),
    ExtractorCallClaude(AllAttempts("rate_limit"),
                        ExtractorResponse(FALSE, FALSE, FALSE, FALSE, FALSE,
                                          << >>)) }

TwiceSynthesizerCalls ==
  { SynthesizerCallClaude(AllAttempts("text"),
                          SynthesizerResponse(TRUE, TRUE, TRUE, "items",
                                              << <<"an agreement">> >>, << >>,
                                              << <<"a gap">> >>, ModelAnswer)),
    SynthesizerCallClaude([AllAttempts("text") EXCEPT ![1] = "rate_limit"],
                          SynthesizerResponse(TRUE, TRUE, TRUE, "items", << >>,
                                              << >>, << >>, JNull)) }

\* research() as a function of the question and of what the collaborators
\* answer: search maps a query to what search_engine.search gives, fetch a
\* URL to what fetch_content gives, extract a URL to the outcome of the
\* extractor's model call for the source of that URL.
\* _search_and_fetch, lines 155-167: the loop over the results of one query
RECURSIVE FetchResults(_, _, _)
FetchResults(sources, found, fetch) ==
  IF found = << >> THEN sources
  ELSE FetchResults(AddSource(sources, Head(found), fetch[Head(found).url]),
                    Tail(found), fetch)

\* _search_and_fetch, lines 142-169: the loop over the queries, begun with
\* the sources given (the code begins with none)
RECURSIVE SearchAndFetch(_, _, _, _)
SearchAndFetch(sources, queries, search, fetch) ==
  IF queries = << >> THEN [exc |-> "none", val |-> sources]
  ELSE LET found == search[Head(queries)] IN
       IF found.exc # "none" THEN [exc |-> found.exc, val |-> << >>]
       ELSE SearchAndFetch(FetchResults(sources, found.val, fetch),
                           Tail(queries), search, fetch)

\* extract_facts, fact_extractor.py lines 55-72: the loop over the sources,
\* begun with the facts given (the code begins with none)
RECURSIVE ExtractFacts(_, _, _)
ExtractFacts(facts, sources, extract) ==
  IF sources = << >> THEN facts
  ELSE ExtractFacts(AddFacts(facts, Head(sources), extract[Head(sources).url]),
                    Tail(sources), extract)

\* research(question), lines 68-127, on an orchestrator with the given
\* save_intermediate and decomposer bounds: the exception it raises, or
\* the report it returns
Research(q, canned, save, minq, maxq) ==
  LET subs == Decompose(q, canned.decompose, minq, maxq)
      gathered == SearchAndFetch(<< >>, subs, canned.search, canned.fetch)
      checked == SourcesCheck(gathered.val, save, canned.sources_write_ok)
      facts == ExtractFacts(<< >>, gathered.val, canned.extract)
      syn == Synthesize(q, facts, canned.synthesize)
  IN IF gathered.exc # "none"
     THEN [exc |-> gathered.exc, cause |-> "search", report |-> << >>]
     ELSE IF checked.exc # "none"
     THEN [exc |-> checked.exc, cause |-> checked.cause, report |-> << >>]
     ELSE IF syn.exc # "none"
     THEN [exc |-> syn.exc, cause |-> "fallback_synthesis", report |-> << >>]
     ELSE IF ~canned.report_write_ok
     THEN [exc |-> "OSError", cause |-> "save_report", report |-> << >>]
     ELSE [exc |-> "none", cause |-> "none",
           report |-> <<ResearchReport(q, subs, gathered.val, facts, syn.val)>>]

InitTwice ==
  /\ pc = "idle"
  /\ engine = TwiceEngine
  /\ save_intermediate \in BOOLEAN
  /\ cfgMin = MinQueriesDefault
  /\ cfgMax = MaxQueriesDefault
  /\ modelCall = NoCall
  /\ args \in [fn : {"research"}, question : Questions,
               decompose : TwiceDecomposerCalls,
               search : [TwiceQueries -> TwiceSearchOutcomes],
               fetch : { f \in [URLs -> UNION {TwiceFetchOutcomes[u] : u \in URLs}] :
                           \A u \in URLs : f[u] \in TwiceFetchOutcomes[u] },
               extract : [URLs -> TwiceExtractorCalls],
               synthesize : TwiceSynthesizerCalls,
               sources_write_ok : BOOLEAN, report_write_ok : BOOLEAN]
  /\ ret = NoRet
  /\ question = << >>
  /\ sub_queries = << >>
  /\ decompIn = NoDecompIn
  /\ qi = 0
  /\ results = << >>
  /\ ri = 0
  /\ all_sources = << >>
  /\ searchLog = << >>
  /\ resultLog = << >>
  /\ fetchLog = << >>
  /\ si = 0
  /\ all_facts = << >>
  /\ extractLog = << >>
  /\ synthesis = << >>
  /\ synthAttempts = 0
  /\ synthIn = NoSynthIn
  /\ report = << >>
  /\ err = NoError
  /\ writes = << >>

\* the first call is over, with a report or with an exception: the caller
\* keeps what it gave and will call research() again on the same
\* orchestrator, whose variables stay as the first call left them
KeepFirstReport ==
  /\ pc \in {"returned", "raised"}
  /\ ret = NoRet
  /\ ret' = [fn |-> "research", exc |-> err.exc, cause |-> err.cause,
             report |-> report]
  /\ pc' = "idle"
  /\ UNCHANGED <<engine, save_intermediate, cfgMin, cfgMax, modelCall, args,
                 questionVars, gatherVars, extractVars, synthVars, report, err,
                 writes>>

\* research(question) step by step, each collaborator giving its canned
\* response, and the caller taking the first report
NextTwice ==
  \/ ResearchDecomposeWith(args.question, args.decompose)
  \/ /\ pc = "search" /\ qi <= Len(sub_queries)
     /\ SearchWith(args.search[sub_queries[qi]])
  \/ /\ pc = "fetch"
     /\ FetchWith(args.fetch[results[ri].url])
  \/ GatheredWith(args.sources_write_ok)
  \/ /\ pc = "extract" /\ si <= Len(all_sources)
     /\ ExtractWith(args.extract[all_sources[si].url])
  \/ SynthesizeWith(args.synthesize)
  \/ FinishWith(args.report_write_ok)
  \/ KeepFirstReport

SpecTwice == InitTwice /\ [][NextTwice]_vars

\* ------------------------------------------- synthesize as a function
EHighToo == FactEntry(TRUE, JStr(<<"claim six">>), JNull, JStr(High))

\* Facts as _parse_facts builds them from entries of a response for u1.
SynthesizeFacts ==
  { ParseFact(e, "u1")[1] :
      e \in {EHigh, EUpper, EHighToo, ELow, EBogus, ENumberClaim} }

RECURSIVE SeqsUpTo(_, _)
SeqsUpTo(S, n) ==
  IF n = 0 THEN { << >> }
  ELSE LET shorter == SeqsUpTo(S, n - 1)
       IN shorter \cup { Append(s, x) : s \in { t \in shorter : Len(t) = n - 1 },
                                        x \in S }

\* The model call of synthesize: a parsable answer, an answer of null, and a
\* call that is rate-limited on every attempt.
SynthesizeCalls ==
  TwiceSynthesizerCalls
    \cup { SynthesizerCallClaude(AllAttempts("rate_limit"),
                                 SynthesizerResponse(TRUE, TRUE, TRUE, "items", << >>,
                                                     << >>, << >>, ModelAnswer)) }

InitSynthesize ==
  /\ pc = "synthesize_fn"
  /\ args \in [fn : {"synthesize"}, question : Questions,
               facts : SeqsUpTo(SynthesizeFacts, MaxItems),
               call : SynthesizeCalls]
  /\ ret = NoRet
  /\ PipelineAtRest

\* synthesize(question, facts) under the model outcome drawn
SynthesizeOnly ==
  /\ pc = "synthesize_fn"
  /\ ret' = Synthesize(args.question, args.facts, args.call)
  /\ pc' = "synthesized"
  /\ UNCHANGED <<args, pipelineVars>>

NextSynthesize == SynthesizeOnly

SpecSynthesize == InitSynthesize /\ [][NextSynthesize]_vars

\* ------------------------------------------------- the page of main.py
\* Streamlit runs main() from the top after every user interaction; a button
\* gives True only in the run its click caused; st.rerun() ends the run at
\* once and starts another with no widget clicked; st.stop() ends the run;
\* st.session_state lasts.
MaxActions == 3

\* the example questions of lines 210-216
Examples ==
  { <<"What are the benefits of microservices architecture?">>,
    <<"How does CRISPR gene editing work?">>,
    <<"What are the latest developments in quantum computing?">>,
    <<"What is the current state of fusion energy research?">>,
    <<"How do transformer models work in natural language processing?">> }

Texts == Examples \cup { << >>, <<"typed">> }

\* st.session_state and what the last run put on the page: config is << >>
\* before initialize_app has loaded one and <<the configuration>> after;
\* start_shown / start_enabled for the Start Research button, clear_shown
\* for Clear Results
NewSession ==
  [fn |-> "main", config |-> << >>, current_question |-> << >>,
   trigger_research |-> "absent", report |-> FALSE, start_shown |-> FALSE,
   start_enabled |-> FALSE, clear_shown |-> FALSE]

\* Faulty variant: a main() that leaves trigger_research set.
MainKeepsTrigger(s, text, click, ex, loaded, ok) ==
  LET config == IF s.config = << >> THEN loaded ELSE s.config IN
  IF config = << >>
  THEN [session |-> s, called |-> FALSE, rerun |-> FALSE, stopped |-> TRUE]
  ELSE IF click = "example"
  THEN [session |-> [s EXCEPT !.config = config, !.current_question = ex,
                              !.trigger_research = "true"],
        called |-> FALSE, rerun |-> TRUE, stopped |-> FALSE]
  ELSE
    LET page(built) ==
          LET triggered == s.trigger_research = "true"
              start_research == triggered \/ click = "start"
              called == start_research /\ text # << >> /\ built
              has_report == s.report \/ (called /\ ok)
              shown == ~start_research \/ (called /\ ok)
              after == [s EXCEPT !.config = config,
                                 !.current_question = text,
                                 !.report = has_report,
                                 !.start_shown = ~triggered,
                                 !.start_enabled = ~triggered /\ text # << >>,
                                 !.clear_shown = shown /\ has_report]
          IN IF click = "clear" /\ shown /\ has_report
             THEN [session |-> [after EXCEPT !.report = FALSE, !.clear_shown = FALSE],
                   called |-> called, rerun |-> TRUE, stopped |-> FALSE]
             ELSE [session |-> after, called |-> called, rerun |-> FALSE,
                   stopped |-> FALSE]
    IN page(OrchestratorInit(config[1]).exc = "none")

\* One run of main(): loaded is what load_config gives when the session has
\* no config yet (<<the configuration>>, or << >> when it raises and
\* initialize_app stops the run), text what the text input gives, click the
\* button clicked ("none", "example" with its question ex, "start",
\* "clear"), ok whether research() returns a report.  The orchestrator is
\* constructed from the session's config inside the try block, before
\* research() (line 248): page(built) is the run from there on, built
\* whether the constructor returns.  called: research() was called; rerun:
\* the run ended in st.rerun(); stopped: it ended in st.stop().
Main(s, text, click, ex, loaded, ok) ==
  LET config == IF s.config = << >> THEN loaded ELSE s.config IN
  IF config = << >>
  THEN [session |-> s, called |-> FALSE, rerun |-> FALSE, stopped |-> TRUE]
  ELSE IF click = "example"
  THEN [session |-> [s EXCEPT !.config = config, !.current_question = ex,
                              !.trigger_research = "true"],
        called |-> FALSE, rerun |-> TRUE, stopped |-> FALSE]
  ELSE
    LET page(built) ==
          LET triggered == s.trigger_research = "true"
              start_research == triggered \/ click = "start"
              called == start_research /\ text # << >> /\ built
              has_report == s.report \/ (called /\ ok)
              shown == ~start_research \/ (called /\ ok)
              after == [s EXCEPT !.config = config,
                                 !.current_question = text,
                                 !.trigger_research =
                                    IF triggered THEN "false" ELSE s.trigger_research,
                                 !.report = has_report,
                                 !.start_shown = ~triggered,
                                 !.start_enabled = ~triggered /\ text # << >>,
                                 !.clear_shown = shown /\ has_report]
          IN IF click = "clear" /\ shown /\ has_report
             THEN [session |-> [after EXCEPT !.report = FALSE, !.clear_shown = FALSE],
                   called |-> called, rerun |-> TRUE, stopped |-> FALSE]
             ELSE [session |-> after, called |-> called, rerun |-> FALSE,
                   stopped |-> FALSE]
    IN page(OrchestratorInit(config[1]).exc = "none")

InitPage ==
  /\ pc = "page_new"
  /\ args = NewSession
  /\ ret = [fn |-> "main", actions |-> 0, calls |-> 0]
  /\ PipelineAtRest

\* the run of main() that click causes, counted as a start of research or not
RunMain(text, click, ex, loaded, ok, starts) ==
  LET r == Main(args, text, click, ex, loaded, ok) IN
  /\ args' = r.session
  /\ ret' = [ret EXCEPT !.actions = @ + (IF starts THEN 1 ELSE 0),
                        !.calls = @ + (IF r.called THEN 1 ELSE 0)]
  /\ pc' = IF r.stopped THEN "page_stopped"
           ELSE IF r.rerun THEN "page_rerun" ELSE "page_shown"
  /\ UNCHANGED pipelineVars

\* the page is opened, or opened again after a run that stopped
PageOpened ==
  /\ pc \in {"page_new", "page_stopped"}
  /\ \E loaded \in {<< >>} \cup {<<cfg>> : cfg \in Configs} :
       RunMain(<< >>, "none", << >>, loaded, TRUE, FALSE)

\* the user commits a text in the input, moves the slider, downloads
PageEdited ==
  /\ pc = "page_shown"
  /\ \E text \in Texts : RunMain(text, "none", << >>, << >>, TRUE, FALSE)

\* the user clicks Start Research, enabled on the page, with text in the input
StartClicked ==
  /\ pc = "page_shown"
  /\ args.start_shown /\ args.start_enabled
  /\ ret.actions < MaxActions
  /\ \E text \in Texts, ok \in BOOLEAN :
       RunMain(text, "start", << >>, << >>, ok, text # << >>)

\* the user clicks an example question
ExampleClicked ==
  /\ pc = "page_shown"
  /\ ret.actions < MaxActions
  /\ \E text \in Texts, ex \in Examples :
       RunMain(text, "example", ex, << >>, TRUE, TRUE)

\* the user clicks Clear Results
ClearClicked ==
  /\ pc = "page_shown"
  /\ args.clear_shown
  /\ RunMain(args.current_question, "clear", << >>, << >>, TRUE, FALSE)

\* the run st.rerun() starts: the text input shows current_question
Rerun ==
  /\ pc = "page_rerun"
  /\ \E ok \in BOOLEAN :
       RunMain(args.current_question, "none", << >>, << >>, ok, FALSE)

NextPage ==
  \/ PageOpened
  \/ PageEdited
  \/ StartClicked
  \/ ExampleClicked
  \/ ClearClicked
  \/ Rerun

SpecPage == InitPage /\ [][NextPage]_vars

\* ------------------------------------------- the retry loops side by side
\* one of _call_claude (of any component), fetch_content and
\* SearchEngine.search is applied
InitRetry == InitCall \/ InitFetch \/ InitSearch

NextRetry == NextCall \/ NextFetch \/ NextSearch

SpecRetry == InitRetry /\ [][NextRetry]_vars

\* ================================================================== claims
\* _search_and_fetch has returned to research()
SearchingOver ==
  \/ pc \in {"extract", "report", "returned"}
  \/ pc = "raised" /\ err.cause # "search"

\* research() has been called
Started == pc \in {"search", "fetch", "extract", "report", "returned", "raised"}

IsPrefix(s, t) == Len(s) <= Len(t) /\ \A i \in 1..Len(s) : s[i] = t[i]

\* C1: when every sub-query has been searched and every result fetched and
\* the source sequence is empty, research() raises the no-sources error and
\* returns no report; nothing is extracted, synthesized or written.
C1_NoSourcesRaises ==
  (SearchingOver /\ all_sources = << >>) =>
    /\ pc = "raised"
    /\ err = [exc |-> "ValueError", cause |-> "no_sources"]
    /\ report = << >>
    /\ extractLog = << >>
    /\ all_facts = << >>
    /\ synthesis = << >>
    /\ synthAttempts = 0
    /\ writes = << >>

C1_Witness ==
  /\ pc = "raised"
  /\ err.cause = "no_sources"
  /\ Len(searchLog) >= 3
  /\ fetchLog # << >>

\* C2 (as claimed): research() fails only when no source was gathered; with
\* at least one source it returns a report whatever the saves, the
\* extractions and the synthesis did.
C2_FailsOnlyWithoutSources == pc = "raised" => all_sources = << >>

\* the kind of the error research() raises for no sources
NoSourcesKind == SourcesCheck(<< >>, FALSE, TRUE).exc

\* C3 (as claimed): the no-sources error is told apart by its kind from every
\* other error the constructor or research() raises.
C3_NoSourcesKindDistinct ==
  (err.exc # "none" /\ err.cause # "no_sources") => err.exc # NoSourcesKind

DecompositionUnusable ==
  decompIn.raised \/ ~decompIn.decoded \/ decompIn.number

\* C4 (as claimed): when the decomposer's model call raises or its response
\* is not a JSON array of strings, the sub-queries are exactly [question].
C4_NotStringArrayFallsBack ==
  (Started /\ (decompIn.raised \/ ~decompIn.decoded \/ ~decompIn.all_str)) =>
    sub_queries = <<question>>

\* C4 (amended): when the decomposer's model call raises, or no JSON array
\* can be decoded from its response, or the array holds a non-zero number,
\* the sub-queries are exactly [question] and research() goes on to search
\* that one query.
C4_FailureFallsBack ==
  (Started /\ DecompositionUnusable) =>
    /\ sub_queries = <<question>>
    /\ IsPrefix(searchLog, <<question>>)
    /\ (pc # "search" => searchLog = <<question>>)

C4_Witness ==
  /\ pc = "fetch"
  /\ decompIn.raised
  /\ searchLog = <<question>>

InBounds(n, lo, hi) == lo <= n /\ n <= hi

\* C5 (as claimed): for every configured pair (min_queries, max_queries),
\* decompose returns a non-empty sequence of length within
\* [min_queries, max_queries], or exactly [question].
C5_LengthWithinAnyBounds ==
  pc = "decomposed" =>
    \/ sub_queries # << >> /\ InBounds(Len(sub_queries), cfgMin, cfgMax)
    \/ sub_queries = <<question>>

\* C5 (amended): for every configured pair with
\* 1 <= min_queries <= max_queries, decompose returns a non-empty sequence of
\* length within [min_queries, max_queries], or exactly [question].
C5_LengthWithinSaneBounds ==
  (pc = "decomposed" /\ 1 <= cfgMin /\ cfgMin <= cfgMax) =>
    \/ sub_queries # << >> /\ InBounds(Len(sub_queries), cfgMin, cfgMax)
    \/ sub_queries = <<question>>

C5_Witness ==
  /\ pc = "decomposed"
  /\ 1 <= cfgMin /\ cfgMin < cfgMax
  /\ decompIn.decoded
  /\ Len(modelCall.val.items) > cfgMax
  /\ Len(sub_queries) = cfgMax
  /\ sub_queries # <<question>>

FetchedNonEmpty(e) == ~e.none /\ e.text # << >>

\* C6: a Source is created for a result exactly when fetch_content returned
\* non-empty content for it, and no Source, in all_sources or in a report,
\* has empty content.
C6_SourceIffContent ==
  /\ Len(all_sources) =
       Cardinality({i \in 1..Len(fetchLog) : FetchedNonEmpty(fetchLog[i])})
  /\ \A i \in 1..Len(all_sources) : all_sources[i].content # << >>
  /\ report # << >> =>
       \A i \in 1..Len(report[1].sources) : report[1].sources[i].content # << >>

C6_Witness ==
  /\ pc = "returned"
  /\ \E i \in 1..Len(fetchLog) : fetchLog[i].none
  /\ \E i \in 1..Len(fetchLog) : FetchedNonEmpty(fetchLog[i])

\* C7: all_sources is, in order, the results whose fetch succeeded, over the
\* sub-queries in input order and each search's results in the order
\* returned; a failed fetch or an empty search only leaves its own entries
\* out, every other result is still fetched and every sub-query searched.
C7_SourcesInEncounterOrder ==
  LET ok == SelectSeq(fetchLog, FetchedNonEmpty) IN
  /\ Len(all_sources) = Len(ok)
  /\ \A i \in 1..Len(ok) :
       all_sources[i] =
         [url |-> ok[i].url, title |-> ok[i].title, content |-> ok[i].text]
  /\ Len(fetchLog) <= Len(resultLog)
  /\ \A i \in 1..Len(fetchLog) :
       fetchLog[i].url = resultLog[i].url /\ fetchLog[i].title = resultLog[i].title
  /\ IsPrefix(searchLog, sub_queries)
  /\ SearchingOver => Len(fetchLog) = Len(resultLog) /\ searchLog = sub_queries

C7_Witness ==
  /\ pc = "returned"
  /\ Len(sub_queries) >= 3
  /\ Len(fetchLog) = 2
  /\ fetchLog[1].none
  /\ FetchedNonEmpty(fetchLog[2])
  /\ results = << >>

\* an entry of a 'facts' array that becomes a Fact
EntryKept(e) ==
  /\ e.is_dict
  /\ \/ e.claim.t = "str" /\ e.claim.s # << >>
     \/ e.claim.t = "num" /\ e.claim.s \notin ZeroNumbers
  /\ e.confidence.t \in {"absent", "str"}

\* over the sources read so far, in order: the claim and the source of every
\* entry that becomes a Fact
RECURSIVE ExpectedFacts(_)
ExpectedFacts(log) ==
  IF log = << >> THEN << >>
  ELSE LET kept == SelectSeq(Head(log).entries, EntryKept) IN
       [i \in 1..Len(kept) |-> [claim |-> kept[i].claim, source_url |-> Head(log).url]]
         \o ExpectedFacts(Tail(log))

ClaimAndSource(facts) ==
  [i \in 1..Len(facts) |->
     [claim |-> facts[i].claim, source_url |-> facts[i].source_url]]

\* C8: the fact sequence is the concatenation, in source encounter order, of
\* each source's facts, each source's facts in the order of the model's
\* 'facts' array.
C8_FactsInEncounterOrder ==
  /\ ClaimAndSource(all_facts) = ExpectedFacts(extractLog)
  /\ \A i \in 1..Len(extractLog) : extractLog[i].url = all_sources[i].url
  /\ report # << >> => report[1].facts = all_facts

C8_Witness ==
  /\ pc = "returned"
  /\ Len(extractLog) = 2
  /\ Len(SelectSeq(extractLog[1].entries, EntryKept)) = 2
  /\ Len(SelectSeq(extractLog[2].entries, EntryKept)) = 1
  /\ extractLog[1].url # extractLog[2].url

RECURSIVE KeptCount(_)
KeptCount(log) ==
  IF log = << >> THEN 0
  ELSE Len(SelectSeq(Head(log).entries, EntryKept)) + KeptCount(Tail(log))

ExtractionOver ==
  pc \in {"report", "returned"}
    \/ (pc = "raised" /\ err.cause \in {"fallback_synthesis", "save_report"})

\* C9: a source whose extraction fails (model call or parse) adds no fact and
\* changes nothing else: the facts of the other sources are all there, every
\* source is still read, and the run does not end in the extraction stage.
C9_ExtractionFailureIsLocal ==
  /\ Len(all_facts) = KeptCount(extractLog)
  /\ pc = "extract" => Len(extractLog) = si - 1
  /\ ExtractionOver => Len(extractLog) = Len(all_sources)
  /\ (pc = "raised" /\ extractLog # << >>) => ExtractionOver

C9_Witness ==
  /\ pc = "returned"
  /\ Len(extractLog) = 2
  /\ ~extractLog[1].failed
  /\ extractLog[2].failed
  /\ all_facts # << >>

\* C10: every Fact, in all_facts and in a report, has confidence 'high',
\* 'medium' or 'low'.
C10_ConfidenceIsOneOfThree ==
  /\ \A i \in 1..Len(all_facts) :
       all_facts[i].confidence \in
         {<<"h", "i", "g", "h">>, <<"m", "e", "d", "i", "u", "m">>, <<"l", "o", "w">>}
  /\ report # << >> =>
       \A i \in 1..Len(report[1].facts) :
         report[1].facts[i].confidence \in
           {<<"h", "i", "g", "h">>, <<"m", "e", "d", "i", "u", "m">>, <<"l", "o", "w">>}

C10_Witness ==
  /\ pc = "returned"
  /\ \E i \in 1..Len(report[1].facts) :
       /\ report[1].facts[i].claim = JStr(<<"claim three">>)
       /\ report[1].facts[i].confidence = <<"m", "e", "d", "i", "u", "m">>

\* an entry of a 'facts' array that is an object with a non-empty claim
EntryHasClaim(e) == e.is_dict /\ Truthy(e.claim)

RECURSIVE HasClaimCount(_)
HasClaimCount(log) ==
  IF log = << >> THEN 0
  ELSE Len(SelectSeq(Head(log).entries, EntryHasClaim)) + HasClaimCount(Tail(log))

\* C11 (as claimed): every entry of a 'facts' array that has a non-empty
\* claim yields a Fact, whatever its confidence (absent, null, not a string
\* or not one of the three): none is dropped because of its confidence.
C11_NeverDroppedForConfidence == Len(all_facts) = HasClaimCount(extractLog)

\* C12: every Fact has a non-empty claim and carries the url of the Source
\* that was being read when it was made: each extraction step only appends
\* facts, and the facts it appends carry the url of the source of that step;
\* a report holds exactly these facts.
C12_FactsCarryTheirSource ==
  [][ /\ (pc = "extract" /\ si' = si + 1) =>
           /\ IsPrefix(all_facts, all_facts')
           /\ \A i \in (Len(all_facts) + 1)..Len(all_facts') :
                /\ all_facts'[i].source_url = all_sources[si].url
                /\ Truthy(all_facts'[i].claim)
      /\ ~(pc = "extract" /\ si' = si + 1) => all_facts' = all_facts
      /\ report' # << >> => report'[1].facts = all_facts'
    ]_vars

C12_Witness ==
  /\ pc = "returned"
  /\ Len(report[1].sources) = 2
  /\ report[1].sources[1].url # report[1].sources[2].url
  /\ \E i, j \in 1..Len(report[1].facts) :
       /\ report[1].facts[i].source_url = report[1].sources[1].url
       /\ report[1].facts[j].source_url = report[1].sources[2].url

\* C13: the synthesis of a run, and the one in the report research()
\* returns, has a non-empty answer, on the model path, the fallback path and
\* the no-facts path.
C13_AnswerNonEmpty ==
  /\ synthesis # << >> => Truthy(synthesis[1].answer)
  /\ report # << >> =>
       /\ Truthy(report[1].synthesis.answer)
       /\ report[1].synthesis = synthesis[1]

C13_Witness ==
  /\ pc = "returned"
  /\ synthIn.called /\ synthIn.decoded /\ ~synthIn.has_answer
  /\ report[1].synthesis.agreements = << <<"Multiple sources found">> >>

\* the synthesizer's model call raised, or no JSON object could be decoded
\* from its response, or the object has no non-empty 'answer'
SynthesisCallFailed ==
  synthIn.called /\ (synthIn.raised \/ ~synthIn.decoded \/ ~synthIn.has_answer)

\* C14 (as claimed): with a non-empty fact list, when the model call raises
\* or its response is not parseable or has no non-empty 'answer', synthesize
\* returns the fallback Synthesis: agreements ["Multiple sources found"], no
\* contradictions, one fixed gap and a non-empty answer.
C14_FailureGivesFallback ==
  SynthesisCallFailed =>
    /\ synthesis # << >>
    /\ synthesis[1].agreements = << <<"Multiple sources found">> >>
    /\ synthesis[1].contradictions = << >>
    /\ synthesis[1].gaps =
         << <<"Detailed analysis unavailable due to synthesis error">> >>
    /\ Truthy(synthesis[1].answer)

\* synthesize has returned
Synthesized ==
  pc \in {"report", "returned"} \/ (pc = "raised" /\ err.cause = "save_report")

\* C15: when no fact was extracted, no model call is made for the synthesis
\* and the synthesis (also in the report) is the degenerate one: no
\* agreements, no contradictions, one gap and the fixed answer that the
\* question could not be answered.
C15_NoFactsNoCall ==
  (pc \in {"report", "returned", "raised"} /\ extractLog # << >>
     /\ all_facts = << >>) =>
       /\ Synthesized
       /\ synthAttempts = 0
       /\ ~synthIn.called
       /\ synthesis[1].agreements = << >>
       /\ synthesis[1].contradictions = << >>
       /\ Len(synthesis[1].gaps) = 1
       /\ synthesis[1].answer =
            JStr(<<"Unable to answer the question due to lack of sources.">>)
       /\ report # << >> => report[1].synthesis = synthesis[1]

C15_Witness ==
  /\ pc = "returned"
  /\ all_facts = << >>
  /\ Len(extractLog) = 2
  /\ report[1].synthesis.answer =
       JStr(<<"Unable to answer the question due to lack of sources.">>)

\* the number of rate-limit responses a script of attempts starts with
RECURSIVE LeadingRateLimits(_)
LeadingRateLimits(outs) ==
  IF outs = << >> \/ Head(outs) # "rate_limit" THEN 0
  ELSE 1 + LeadingRateLimits(Tail(outs))

\* C16: in each of the three components _call_claude makes at most 3
\* attempts; after the k-th consecutive rate limit, k = 1, 2, it sleeps
\* 2^(k-1) seconds and tries again; a rate limit on the 3rd attempt is
\* raised to the caller; a successful attempt returns its text at once.
C16_RateLimitBackoff ==
  pc = "called" =>
    LET k == LeadingRateLimits(args.outs) IN
    /\ ret.attempts <= 3
    /\ ret.attempts = Min(k + 1, 3)
    /\ Len(ret.sleeps) = Min(k, 2)
    /\ \A i \in 1..Len(ret.sleeps) : ret.sleeps[i] = 2 ^ (i - 1)
    /\ k = 3 => ret.exc = "RateLimitError" /\ ~ret.returned
    /\ (k < 3 /\ args.outs[k + 1] = "text") =>
         ret.exc = "none" /\ ret.returned /\ ret.val = args.text

C16_Witness ==
  /\ pc = "called"
  /\ args.component = "synthesizer"
  /\ args.outs = <<"rate_limit", "rate_limit", "text">>
  /\ ret.sleeps = <<1, 2>>
  /\ ret.returned

\* the attempt that meets a provider-side error other than a rate limit
ApiErrorAt(outs) ==
  LET k == LeadingRateLimits(outs) IN
  IF k < MaxRetries /\ outs[k + 1] = "api_error" THEN k + 1 ELSE 0

\* C17 (as claimed): when a model call fails with a provider-side error other
\* than a rate limit, the error is raised with exactly one attempt made for
\* the prompt and no sleep.
C17_OneAttemptOnApiError ==
  (pc = "called" /\ ApiErrorAt(args.outs) > 0) =>
    /\ ret.exc = "APIError"
    /\ ret.attempts = 1
    /\ ret.sleeps = << >>

\* C17 (amended): when an attempt fails with a provider-side error other than
\* a rate limit, the error is raised at once: that attempt is the last, no
\* sleep follows it (the only sleeps are those after the rate limits before
\* it), and when it is the first attempt exactly one attempt is made and
\* there is no sleep at all.
C17_ApiErrorRaisedAtOnce ==
  (pc = "called" /\ ApiErrorAt(args.outs) > 0) =>
    /\ ret.exc = "APIError"
    /\ ~ret.returned
    /\ ret.attempts = ApiErrorAt(args.outs)
    /\ Len(ret.sleeps) = ApiErrorAt(args.outs) - 1
    /\ ApiErrorAt(args.outs) = 1 => ret.attempts = 1 /\ ret.sleeps = << >>

C17_Witness ==
  /\ pc = "called"
  /\ args.component = "extractor"
  /\ args.outs = <<"rate_limit", "api_error", "text">>
  /\ ret.exc = "APIError"
  /\ ret.attempts = 2
  /\ ret.sleeps = <<1>>

\* the first GET, among the retry_attempts allowed, that is answered by
\* something other than a 5xx or a timeout (0 when there is none)
RECURSIVE DecidingGet(_, _, _)
DecidingGet(outs, retry_attempts, i) ==
  IF i > retry_attempts THEN 0
  ELSE IF outs[i] \notin {"http5xx", "timeout"} THEN i
  ELSE DecidingGet(outs, retry_attempts, i + 1)

\* C18: a GET answered with a 4xx status (404, 403 or another) makes
\* fetch_content return None at once: it is the last GET for the URL and no
\* sleep follows it.
C18_4xxNotRetried ==
  pc = "fetched" =>
    LET d == DecidingGet(args.outs, args.retry_attempts, 1) IN
    (d > 0 /\ args.outs[d] \in {"http404", "http403", "http4xx"}) =>
      /\ ret.none
      /\ ret.gets = d
      /\ Len(ret.sleeps) = d - 1

C18_Witness ==
  /\ pc = "fetched"
  /\ args.retry_attempts = 3
  /\ args.outs = <<"http5xx", "http4xx", "page">>
  /\ args.extracted # << >>
  /\ ret.none
  /\ ret.gets = 2

\* C19 (as claimed): a URL whose GETs keep failing with 5xx or timeouts is
\* retried up to retry_attempts, and the wait before the n-th retry is
\* 2^(n-1) seconds after a 5xx and after a timeout alike.
C19_ExponentialWaits ==
  pc = "fetched" =>
    /\ ret.gets <= args.retry_attempts
    /\ DecidingGet(args.outs, args.retry_attempts, 1) = 0 =>
         ret.gets = args.retry_attempts
    /\ \A n \in 1..Len(ret.sleeps) : ret.sleeps[n] = 2 ^ (n - 1)

\* C20: fetch_content never raises: whatever the GETs and the extraction
\* give it returns None, except when a GET is answered with a page that has
\* extractable text, and then it returns that text (its first max_length
\* words when it has more).
C20_NeverRaises ==
  pc = "fetched" =>
    LET d == DecidingGet(args.outs, args.retry_attempts, 1)
        words == SplitWords(args.extracted, << >>)
    IN
    /\ ret.exc = "none"
    /\ ret.none <=> ~(d > 0 /\ args.outs[d] = "page" /\ args.extracted # << >>)
    /\ ~ret.none =>
         /\ SplitWords(ret.text, << >>) = Slice(words, args.max_length)
         /\ Len(words) <= args.max_length => ret.text = args.extracted

C20_Witness ==
  /\ pc = "fetched"
  /\ args.retry_attempts = 2
  /\ args.outs[1] = "timeout"
  /\ args.outs[2] = "exception"
  /\ ret.none
  /\ ret.gets = 2

\* The claim C21 as written, for any configured max_content_length: the text
\* fetch_content returns has at most max_content_length words: of an
\* extracted text with more words it is the first max_content_length words in
\* their order, any other extracted text is returned as it is.
C21_WordCap ==
  (pc = "fetched" /\ ~ret.none) =>
    LET words == SplitWords(args.extracted, << >>)
        got == SplitWords(ret.text, << >>)
    IN
    /\ Len(got) <= args.max_length
    /\ IsPrefix(got, words)
    /\ Len(words) > args.max_length => Len(got) = args.max_length
    /\ Len(words) <= args.max_length => ret.text = args.extracted

\* C21: with max_content_length >= 0 the text fetch_content returns has at
\* most max_content_length words: of an extracted text with more words it is
\* the first max_content_length words in their order, any other extracted text
\* is returned as it is.  With a negative max_content_length every extracted
\* text counts as too long and loses its last -max_content_length words: what
\* is returned is the words before them joined by single spaces, the empty
\* text when there are none.
C21_WordCapBySign ==
  (pc = "fetched" /\ ~ret.none) =>
    LET words == SplitWords(args.extracted, << >>)
        got == SplitWords(ret.text, << >>)
        cap == args.max_length
    IN
    /\ IsPrefix(got, words)
    /\ cap >= 0 =>
         /\ Len(got) <= cap
         /\ Len(words) > cap => Len(got) = cap
         /\ Len(words) <= cap => ret.text = args.extracted
    /\ cap < 0 =>
         /\ Len(got) = Max(Len(words) + cap, 0)
         /\ ret.text = JoinWords(got)

C21_Witness ==
  /\ pc = "fetched"
  /\ args.extracted = <<"alpha", " ", "beta">>
  /\ args.max_length = 1
  /\ ret.text = <<"alpha">>

\* every attempt of the DuckDuckGo backend raised
DdgAllRaise == \A n \in 1..DdgMaxAttempts : args.ddg_outs[n] = "exception"

\* the request of the Google backend raised
GoogleRaises == args.google_kind # "items"

\* C22: SearchEngine.search never raises, in any provider mode: when the
\* backend it uses raises (DuckDuckGo on every attempt) the result is the
\* empty sequence, or in auto mode what the fallback backend gives.
C22_SearchNeverRaises ==
  pc = "searched" =>
    /\ ret.exc = "none"
    /\ (engine.provider = ProviderName.duckduckgo /\ DdgAllRaise) => ret.val = << >>
    /\ (engine.provider = ProviderName.google /\ GoogleRaises) => ret.val = << >>
    /\ (engine.provider = ProviderName.auto /\ DdgAllRaise) =>
         ret.val = IF engine.google /\ ~GoogleRaises THEN args.google_res
                   ELSE << >>

\* what the DuckDuckGo backend yields for the query: the results of its
\* first attempt that does not raise, nothing when all of them raise
DdgYield ==
  IF \E n \in 1..DdgMaxAttempts : args.ddg_outs[n] = "results"
  THEN args.ddg_res ELSE << >>

\* C23: in auto mode with both backends available, Google is called for a
\* query exactly when DuckDuckGo yielded no result for it (raising on every
\* attempt counts as none); when DuckDuckGo yields at least one result,
\* search returns exactly those and Google is not called.
C23_AutoFallsBackIffEmpty ==
  (pc = "searched" /\ engine.provider = ProviderName.auto /\ engine.ddg /\ engine.google)
    =>
    /\ ret.ddg_called
    /\ ret.google_called <=> DdgYield = << >>
    /\ DdgYield # << >> => ret.exc = "none" /\ ret.val = DdgYield

C23_Witness ==
  /\ pc = "searched"
  /\ engine = [provider |-> ProviderName.auto, ddg |-> TRUE, google |-> TRUE]
  /\ DdgAllRaise
  /\ args.ddg_res # << >>
  /\ args.google_kind = "items"
  /\ Len(args.google_res) = 2
  /\ ret.google_called
  /\ ret.val = args.google_res

\* C24: an explicit provider uses one backend only and never falls back.
\* With 'duckduckgo' the Google backend is neither constructed nor called and
\* an empty DuckDuckGo result is returned as empty; with 'google' the
\* DuckDuckGo backend is neither constructed nor called.
C24_ExplicitProviderOneBackend ==
  /\ (pc \in {"search_idle", "searched"} /\ engine.provider = ProviderName.duckduckgo) =>
       engine.ddg /\ ~engine.google
  /\ (pc \in {"search_idle", "searched"} /\ engine.provider = ProviderName.google) =>
       engine.google /\ ~engine.ddg
  /\ (pc = "searched" /\ engine.provider = ProviderName.duckduckgo) =>
       /\ ret.ddg_called /\ ~ret.google_called
       /\ ret.exc = "none" /\ ret.val = DdgYield
  /\ (pc = "searched" /\ engine.provider = ProviderName.google) =>
       /\ ret.google_called /\ ~ret.ddg_called
       /\ ret.exc = "none" => ret.val = IF GoogleRaises THEN << >>
                                          ELSE args.google_res

C24_Witness ==
  /\ pc = "searched"
  /\ engine.provider = ProviderName.duckduckgo
  /\ args.cfg.google_lib /\ args.cfg.google_creds
  /\ DdgYield = << >>
  /\ args.google_kind = "items"
  /\ args.google_res # << >>
  /\ ret.val = << >>

\* the configuration leaves no backend: Google asked for by name without
\* its library or its credentials, or a provider name that is neither
\* backend's nor 'auto'
NoBackendAvailable ==
  /\ args.cfg.provider.t \in {"absent", "str"}
  /\ LET name == IF args.cfg.provider.t = "absent" THEN ProviderName.auto
                 ELSE Lower(args.cfg.provider.s)
     IN \/ name = ProviderName.google
             /\ ~(args.cfg.google_lib /\ args.cfg.google_creds)
        \/ name \notin {ProviderName.auto, ProviderName.duckduckgo,
                        ProviderName.google}

\* C25: constructing a SearchEngine fails when no backend is available, so
\* a SearchEngine that exists has at least one backend and its search() has
\* a backend to call.
C25_NoEngineWithoutBackend ==
  /\ (pc # "search_new" /\ NoBackendAvailable) =>
       /\ pc = "search_ctor_raised"
       /\ err.exc \in {"ImportError", "ValueError"}
       /\ engine = NoEngine
  /\ pc \in {"search_idle", "searched"} => engine.ddg \/ engine.google
  /\ pc = "searched" => ret.ddg_called \/ ret.google_called

C25_Witness ==
  /\ pc = "search_ctor_raised"
  /\ args.cfg.provider = JStr(<<"b", "i", "n", "g">>)
  /\ args.cfg.google_lib /\ args.cfg.google_creds
  /\ err = [exc |-> "ValueError", cause |-> "no_providers"]

\* the steps of a run in which an external call is made
StepDecomposes == decompIn' # decompIn \/ sub_queries' # sub_queries

StepSearches == searchLog' # searchLog

StepFetches == fetchLog' # fetchLog

StepExtracts == extractLog' # extractLog

StepSynthesizes ==
  synthIn' # synthIn \/ synthesis' # synthesis \/ synthAttempts' # synthAttempts

StepReports == report' # report

\* every result the searches returned so far has been fetched
AllFetched == Len(fetchLog) = Len(resultLog)

NotYetSynthesized == synthIn = NoSynthIn /\ synthesis = << >>

CallsInOrder ==
  /\ StepDecomposes =>
       /\ ~StepSearches /\ ~StepFetches /\ ~StepExtracts
       /\ ~StepSynthesizes /\ ~StepReports
       /\ searchLog = << >> /\ fetchLog = << >> /\ extractLog = << >>
       /\ NotYetSynthesized /\ report = << >>
  /\ StepSearches =>
       /\ ~StepFetches /\ ~StepExtracts /\ ~StepSynthesizes /\ ~StepReports
       /\ sub_queries # << >>
       /\ searchLog' = Append(searchLog, sub_queries[Len(searchLog) + 1])
       /\ AllFetched
       /\ extractLog = << >> /\ NotYetSynthesized /\ report = << >>
  /\ StepFetches =>
       /\ ~StepExtracts /\ ~StepSynthesizes /\ ~StepReports
       /\ resultLog' = resultLog
       /\ Len(fetchLog) < Len(resultLog)
       /\ Len(fetchLog') = Len(fetchLog) + 1
       /\ fetchLog'[Len(fetchLog')].url = resultLog[Len(fetchLog')].url
       /\ extractLog = << >> /\ NotYetSynthesized /\ report = << >>
  /\ StepExtracts =>
       /\ ~StepSynthesizes /\ ~StepReports
       /\ searchLog = sub_queries /\ AllFetched
       /\ Len(extractLog') = Len(extractLog) + 1
       /\ NotYetSynthesized /\ report = << >>
  /\ StepSynthesizes =>
       /\ ~StepReports
       /\ searchLog = sub_queries /\ AllFetched
       /\ Len(extractLog) = Len(all_sources)
       /\ NotYetSynthesized /\ report = << >>
  /\ StepReports =>
       /\ searchLog = sub_queries /\ AllFetched
       /\ Len(extractLog) = Len(all_sources)
       /\ synthesis # << >>
       /\ report = << >>

\* C27: the external calls of a run come strictly one after the other: the
\* decomposer's call before the first search; each sub-query's search before
\* the fetches of its results and all of these before the next search; every
\* fetch before the first extraction; every extraction before the synthesis;
\* the report last. No step makes two of them.
C27_CallsStrictlyOrdered == [][CallsInOrder]_vars

C27_Witness ==
  /\ pc = "returned"
  /\ Len(searchLog) >= 3
  /\ Len(fetchLog) = 2
  /\ searchLog[1] # searchLog[2]
  /\ Len(extractLog) = 2
  /\ synthIn.called
  /\ report # << >>

\* C28: research() writes nothing itself: neither the report nor the
\* intermediate source list reaches storage during a run, in particular not
\* by the time the report is returned.
C28_ResearchWritesNothing == Started => writes = << >>

\* decompose has returned and its response was parsed into a list
Parsed == pc = "decomposed" /\ ~DecompositionUnusable

\* the list _parse_queries gave decompose
ParsedList == ParseQueries(modelCall.val).val

\* the first n entries of s
FirstEntries(s, n) == [i \in 1..(IF n < Len(s) THEN n ELSE Len(s)) |-> s[i]]

\* C29 (as claimed): a parsed list with fewer than min_queries entries is
\* discarded and [question] returned; one with more than max_queries entries
\* is cut to its first max_queries entries in order; one within the bounds
\* is returned unchanged.
C29_CountPolicyAnyBounds ==
  Parsed =>
    /\ Len(ParsedList) < cfgMin => sub_queries = <<question>>
    /\ Len(ParsedList) > cfgMax =>
         sub_queries = FirstEntries(ParsedList, cfgMax)
    /\ InBounds(Len(ParsedList), cfgMin, cfgMax) => sub_queries = ParsedList

\* C29 (amended): a parsed list with fewer than min_queries entries is
\* discarded and [question] returned; otherwise, when max_queries >= 0, one
\* with more than max_queries entries is cut to its first max_queries
\* entries in order; one within the bounds is returned unchanged.
C29_CountPolicy ==
  Parsed =>
    /\ Len(ParsedList) < cfgMin => sub_queries = <<question>>
    /\ (Len(ParsedList) >= cfgMin /\ cfgMax >= 0 /\ Len(ParsedList) > cfgMax)
         => sub_queries = FirstEntries(ParsedList, cfgMax)
    /\ InBounds(Len(ParsedList), cfgMin, cfgMax) => sub_queries = ParsedList

C29_Witness ==
  /\ Parsed
  /\ cfgMin = 1 /\ cfgMax = 2
  /\ Len(ParsedList) = 4
  /\ ParsedList[1] # ParsedList[2]
  /\ sub_queries = <<ParsedList[1], ParsedList[2]>>

\* the entry is a string with something other than whitespace in it
NotBlank(j) == j.t = "str" /\ \E i \in 1..Len(j.s) : j.s[i] \notin Whitespace

NotBlankCount == Cardinality({i \in 1..Len(modelCall.val.items) :
                                NotBlank(modelCall.val.items[i])})

\* the i-th of the entries of items that are not blank
RECURSIVE NthNotBlank(_, _)
NthNotBlank(items, i) ==
  IF NotBlank(Head(items))
  THEN IF i = 1 THEN Head(items).s ELSE NthNotBlank(Tail(items), i - 1)
  ELSE NthNotBlank(Tail(items), i)

Trimmed(s) ==
  s # << >> /\ s[1] \notin Whitespace /\ s[Len(s)] \notin Whitespace

\* C30: blank entries of the model's array are dropped and the others
\* stripped before the count is compared with the bounds: a returned
\* sub-query other than the fallback is non-empty without leading or
\* trailing whitespace and is, whitespace aside, the entry of the array at
\* its place among the non-blank ones; an array with fewer than min_queries
\* non-blank entries falls back to [question], however many blanks it has.
C30_BlanksDroppedBeforeCount ==
  Parsed =>
    /\ NotBlankCount < cfgMin => sub_queries = <<question>>
    /\ sub_queries # <<question>> =>
         /\ Len(sub_queries) <= NotBlankCount
         /\ \A i \in 1..Len(sub_queries) :
              /\ Trimmed(sub_queries[i])
              /\ LET e == NthNotBlank(modelCall.val.items, i) IN
                 \E a \in 0..Len(e), b \in 0..Len(e) :
                   /\ a + b + Len(sub_queries[i]) = Len(e)
                   /\ sub_queries[i] = SubSeq(e, a + 1, Len(e) - b)

C30_Witness ==
  /\ Parsed
  /\ cfgMin = 3 /\ cfgMax = 3
  /\ modelCall.val.items = <<QB, JStr(<<" ">>), JStr(<< >>), QA>>
  /\ question = <<" ", "a">>
  /\ sub_queries = <<question>>

\* the second of two runs on one orchestrator has returned
SecondReturned == pc = "returned" /\ ret # NoRet /\ ret.exc = "none"

\* the second of two runs on one orchestrator is over
SecondOver == pc \in {"returned", "raised"} /\ ret # NoRet

\* C26: research() is a function of its question and of the canned search,
\* fetch and model responses, and keeps no state between calls. Every run on
\* an orchestrator, the first and the one made after it on the same object
\* with the variables of the first run left as they were, ends as
\* research() taken as a function of the question and the responses alone
\* says: with the same exception, or with the same report. So the second of
\* two runs with the same question and the same responses raises what the
\* first raised or returns a report with the same sub_queries, sources (url,
\* title, content), facts and synthesis, and the engine and the bounds held
\* by the orchestrator are what they were.
C26_SecondRunSameReport ==
  LET run == Research(args.question, args, save_intermediate, cfgMin, cfgMax)
  IN
  /\ pc = "returned" => run.exc = "none" /\ report = run.report
  /\ pc = "raised" =>
       run.report = << >> /\ err = [exc |-> run.exc, cause |-> run.cause]
  /\ SecondOver =>
       /\ pc = "returned" <=> ret.exc = "none"
       /\ pc = "raised" => err = [exc |-> ret.exc, cause |-> ret.cause]
       /\ pc = "returned" =>
            /\ report[1].sub_queries = ret.report[1].sub_queries
            /\ report[1].sources = ret.report[1].sources
            /\ report[1].facts = ret.report[1].facts
            /\ report[1].synthesis = ret.report[1].synthesis
  /\ engine = [provider |-> ProviderName.auto, ddg |-> TRUE, google |-> TRUE]
  /\ cfgMin = MinQueriesDefault /\ cfgMax = MaxQueriesDefault

C26_Witness ==
  /\ SecondReturned
  /\ Len(report[1].sub_queries) = 3
  /\ Len(report[1].sources) = 2
  /\ Len(report[1].facts) >= 2
  /\ writes = <<"sources", "report", "sources", "report">>

\* synthesize took the fallback: there are facts, and the model call raised
\* or its response did not parse
FallbackTaken ==
  /\ pc = "synthesized"
  /\ args.facts # << >>
  /\ (args.call.exc # "none" \/ ParseSynthesis(args.call.val).exc # "none")

HighPositions(facts) == { i \in DOMAIN facts : facts[i].confidence = High }

\* the n-th smallest of a set of positions
NthPosition(P, n) == CHOOSE i \in P : Cardinality({ j \in P : j < i }) = n - 1

\* the claims of the first three high-confidence facts, in fact order
FirstHighClaims(facts) ==
  [n \in 1..Min(3, Cardinality(HighPositions(facts))) |->
     facts[NthPosition(HighPositions(facts), n)].claim.s[1]]

IsClaimText(a) == \E f \in SynthesizeFacts : a = f.claim.s[1]

\* the answer of the fallback is the one the fact sequence determines: a
\* header, then the claims of the first three high-confidence facts and of
\* no other fact; without a high-confidence fact, the claim of the first fact
FallbackAnswerFromFacts ==
  LET facts == args.facts
      answer == ret.val.answer.s
  IN IF HighPositions(facts) # {}
     THEN /\ Len(answer) >= 3
          /\ SubSeq(answer, 1, 3) =
               <<"Based on ", ToString(Cardinality(HighPositions(facts))),
                 " high-confidence sources: ">>
          /\ SelectSeq(SubSeq(answer, 4, Len(answer)), IsClaimText)
               = FirstHighClaims(facts)
     ELSE SelectSeq(answer, IsClaimText) = <<facts[1].claim.s[1]>>

\* C31: whenever synthesize falls back, the fallback gives an answer, and the
\* answer holds the claims of the first three high-confidence facts in fact
\* order and of no other fact, or, with no high-confidence fact, the claim
\* of the first fact.
C31_FallbackAnswerFromFacts ==
  FallbackTaken => ret.exc = "none" /\ FallbackAnswerFromFacts

\* what remains of C31 for the fallbacks that return
C31_ReturnedAnswerFromFacts ==
  FallbackTaken /\ ret.exc = "none" => FallbackAnswerFromFacts

\* C32: synthesize returns a Synthesis for every fact sequence and every
\* outcome of the model call: the fallback never raises.
C32_SynthesizeNeverRaises ==
  pc = "synthesized" => ret.exc = "none"

\* the scenario of one result, one successful fetch and one fact for every
\* sub-query the decomposer gave
OneOfEach ==
  /\ args.decompose.exc = "none"
  /\ report[1].sub_queries # <<args.question>>
  /\ \A i \in 1..Len(report[1].sub_queries) :
       LET found == args.search[report[1].sub_queries[i]].val IN
       /\ Len(found) = 1
       /\ ContentTruthy(args.fetch[found[1].url])
       /\ args.extract[found[1].url].exc = "none"
       /\ ParseFacts(args.extract[found[1].url].val, found[1].url).exc = "none"
       /\ Len(SelectSeq(args.extract[found[1].url].val.facts, EntryKept)) = 1

\* C33: the report research() returns holds what the run produced: the
\* question given, the sub-queries that were searched (the decomposer's
\* output, or the question alone), the sources of the successful fetches in
\* order and every extracted fact in order; with one result, one successful
\* fetch and one fact for each of n sub-queries it has n sub-queries, n
\* sources, n facts and a non-empty answer.
C33_ReportFromRun ==
  pc = "returned" =>
    LET r == report[1]
        ok == SelectSeq(fetchLog, FetchedNonEmpty)
    IN /\ r.question = args.question
       /\ r.sub_queries = searchLog
       /\ r.sub_queries = Decompose(args.question, args.decompose, cfgMin, cfgMax)
       /\ args.decompose.exc # "none" => r.sub_queries = <<args.question>>
       /\ r.sources =
            [i \in 1..Len(ok) |->
               [url |-> ok[i].url, title |-> ok[i].title, content |-> ok[i].text]]
       /\ ClaimAndSource(r.facts) = ExpectedFacts(extractLog)
       /\ OneOfEach =>
            /\ Len(r.sources) = Len(r.sub_queries)
            /\ Len(r.facts) = Len(r.sub_queries)
            /\ Truthy(r.synthesis.answer)

C33_Witness ==
  /\ pc = "returned"
  /\ OneOfEach
  /\ Len(report[1].sub_queries) = 3
  /\ Len(report[1].facts) = 3

RunOver == pc \in {"returned", "raised"}

\* an upper bound on the steps research() has left: a search and two steps
\* (the fetch, the extraction) for every result a sub-query can still bring,
\* an extraction for every source there is, the check of the sources, the
\* synthesis and the report
StepsLeft ==
  LET perQuery == 1 + 2 * MaxResults
      sources == Len(all_sources)
  IN CASE pc = "idle" -> 4 + Max(cfgMax, 1) * perQuery
       [] pc = "search" ->
            3 + (Len(sub_queries) + 1 - qi) * perQuery + sources
       [] pc = "fetch" ->
            3 + 2 * (Len(results) + 1 - ri)
              + (Len(sub_queries) - qi) * perQuery + sources
       [] pc = "extract" -> 2 + (Len(all_sources) + 1 - si)
       [] pc = "report" -> 1
       [] OTHER -> 0

\* over the calls still to come: the caller's second call included
WorkLeft ==
  StepsLeft + (IF ret = NoRet THEN 5 + Max(cfgMax, 1) * (1 + 2 * MaxResults) ELSE 0)

\* the external calls made so far are within their budgets
WithinBudget ==
  /\ pc # "idle" => args.decompose.attempts <= 3
  /\ Len(searchLog) <= Len(sub_queries)
  /\ \A i \in 1..Len(searchLog) :
       /\ searchLog[i] = sub_queries[i]
       /\ args.search[searchLog[i]].ddg_attempts <= 3
  /\ Len(fetchLog) <= Len(resultLog)
  /\ \A i \in 1..Len(fetchLog) :
       args.fetch[fetchLog[i].url].gets <= RetryAttemptsDefault
  /\ Len(extractLog) <= Len(all_sources)
  /\ \A i \in 1..Len(extractLog) : args.extract[extractLog[i].url].attempts <= 3
  /\ synthAttempts <= 3

\* C34: every run of research() ends, returning a report or raising: a run
\* that is not over can take a step, every step brings the end nearer, and
\* the calls made stay within 3 model attempts for the decomposition, one
\* search per sub-query with at most 3 DuckDuckGo attempts and one Google
\* call, retry_attempts GETs per result, 3 model attempts per source and 3
\* for the synthesis.
C34_RunsEndWithinBudget ==
  /\ [](WithinBudget /\ WorkLeft >= 0 /\ (~RunOver => ENABLED NextTwice))
  /\ [][WorkLeft' < WorkLeft]_vars

C34_Witness ==
  /\ pc = "returned"
  /\ Len(sub_queries) = 3
  /\ \E i \in 1..Len(searchLog) : args.search[searchLog[i]].ddg_attempts = 2
  /\ \E i \in 1..Len(fetchLog) : args.fetch[fetchLog[i].url].gets = 2
  /\ Len(extractLog) = 3
  /\ synthAttempts = 2

\* the attempts of the DuckDuckGo backend that raised before one did not
DdgFailuresFirst ==
  IF \E n \in 1..DdgMaxAttempts : args.ddg_outs[n] = "results"
  THEN (CHOOSE n \in 1..DdgMaxAttempts :
          /\ args.ddg_outs[n] = "results"
          /\ \A m \in 1..(n - 1) : args.ddg_outs[m] # "results") - 1
  ELSE DdgMaxAttempts

\* C35: DuckDuckGoSearchEngine.search makes at most 3 attempts; the first
\* attempt that does not raise ends the call with its results, empty or not;
\* after the failed attempt k = 1, 2 it sleeps 2^(k-1) seconds and tries
\* again; after the third failed attempt it returns the empty list without
\* sleeping.
C35_DdgThreeAttempts ==
  pc = "searched" /\ ret.ddg_called =>
    /\ ret.ddg_attempts <= 3
    /\ ret.ddg_attempts = Min(DdgFailuresFirst + 1, 3)
    /\ ret.ddg_sleeps =
         [k \in 1..Min(DdgFailuresFirst, 2) |-> 2 ^ (k - 1)]
    /\ DdgFailuresFirst = 3 => ret.ddg_sleeps = <<1, 2>>
    /\ ~ret.google_called => ret.exc = "none" /\ ret.val = DdgYield
    /\ ret.google_called => DdgYield = << >>

C35_Witness ==
  /\ pc = "searched"
  /\ engine.provider = ProviderName.duckduckgo
  /\ args.ddg_outs = <<"exception", "results", "exception">>
  /\ args.ddg_res = << >>
  /\ ret.ddg_attempts = 2
  /\ ret.ddg_sleeps = <<1>>
  /\ ret.val = << >>

\* C36 (as claimed): every click that starts research (Start Research with a
\* non-empty question, an example question) makes exactly one call of
\* research(): when the page is shown there are as many calls as such clicks
\* and trigger_research is not set; between an example click and the run that
\* st.rerun() starts, the one call of that click is still to come.
C36_OneRunPerStart ==
  /\ pc = "page_shown" =>
       ret.calls = ret.actions /\ args.trigger_research # "true"
  /\ pc = "page_rerun" =>
       ret.calls = ret.actions - (IF args.trigger_research = "true" THEN 1 ELSE 0)

\* ResearchOrchestrator(config) can be constructed from the session's config
OrchestratorBuilt ==
  args.config # << >> /\ OrchestratorInit(args.config[1]).exc = "none"

\* C36 (amended): every click that starts research makes at most one call of
\* research(), and exactly one when the orchestrator can be constructed from
\* the session's configuration: when the page is shown there are as many
\* calls as such clicks (none when the constructor raises) and
\* trigger_research is not set; between an example click and the run that
\* st.rerun() starts, the one call of that click is still to come.
C36_OneRunPerStartWhenBuilt ==
  /\ pc = "page_shown" =>
       /\ ret.calls = IF OrchestratorBuilt THEN ret.actions ELSE 0
       /\ args.trigger_research # "true"
  /\ pc = "page_rerun" =>
       ret.calls = IF OrchestratorBuilt
                   THEN ret.actions
                        - (IF args.trigger_research = "true" THEN 1 ELSE 0)
                   ELSE 0

C36_Witness ==
  /\ pc = "page_shown"
  /\ OrchestratorBuilt
  /\ ret.calls = 3
  /\ args.trigger_research = "false"
  /\ args.report
  /\ args.start_shown

\* the entry is there, is not empty, and every pattern in it names a
\* variable that has a non-empty value
Supplied(value) ==
  /\ value.t = "str"
  /\ value.s # << >>
  /\ \A i \in 1..Len(value.s), n \in EnvNames :
       value.s[i] = Pattern(n) => Truthy(args.env[n])

GoogleConfigured ==
  /\ Supplied(args.raw.google_api_key)
  /\ Supplied(args.raw.google_cse_id)

\* C37: in auto mode, when google_api_key or google_cse_id is not supplied
\* (left out, empty, or a ${VAR} pattern whose variable is unset), the
\* SearchEngine is constructed without a Google engine and search() does not
\* call Google.
C37_NoGoogleWithoutCredentials ==
  args.raw.provider = JStr(ProviderName.auto) /\ ~GoogleConfigured =>
    /\ pc \in {"search_idle", "searched"} => ~engine.google
    /\ pc = "searched" => ~ret.google_called

\* what remains of C37 when an entry that is still a pattern after the
\* substitution is counted as supplied
C37_NoGoogleWithoutTruthyEntries ==
  /\ args.raw.provider = JStr(ProviderName.auto)
  /\ \E entry \in {args.raw.google_api_key, args.raw.google_cse_id} :
       LET loaded == SubstituteEnvVars(entry, args.env)
       IN loaded.exc = "none" /\ ~Truthy(loaded.val)
  => /\ pc \in {"search_idle", "searched"} => ~engine.google
     /\ pc = "searched" => ~ret.google_called

\* the searches made so far are the first sub-queries, one call each in
\* order, and the fetches made so far are the first results returned, one
\* call each in order
OneCallEachSoFar ==
  /\ IsPrefix(searchLog, sub_queries)
  /\ Len(fetchLog) <= Len(resultLog)
  /\ \A i \in 1..Len(fetchLog) : fetchLog[i].url = resultLog[i].url

\* C38: in a run of research() that has ended, every sub-query was searched
\* once, in order, and every result returned was fetched once, in order,
\* whether or not its URL was fetched before; each successful fetch is one
\* of the report's sources.
C38_OneCallPerQueryAndResult ==
  /\ OneCallEachSoFar
  /\ pc \in {"returned", "raised"} =>
       /\ searchLog = sub_queries
       /\ Len(fetchLog) = Len(resultLog)
  /\ pc = "returned" =>
       Len(report[1].sources) = Len(SelectSeq(fetchLog, FetchedNonEmpty))

\* what remains of C38 for the runs in which no search raises
C38_OneCallEachUnlessSearchRaises ==
  /\ OneCallEachSoFar
  /\ SearchingOver =>
       /\ searchLog = sub_queries
       /\ Len(fetchLog) = Len(resultLog)
  /\ pc = "returned" =>
       Len(report[1].sources) = Len(SelectSeq(fetchLog, FetchedNonEmpty))

\* a URL returned for two sub-queries, fetched twice and twice a source
C38_SameUrlTwice ==
  /\ pc = "returned"
  /\ Len(searchLog) >= 2
  /\ Len(fetchLog) = 2
  /\ fetchLog[1].url = fetchLog[2].url
  /\ Len(report[1].sources) = 2
  /\ report[1].sources[1].url = report[1].sources[2].url

\* the attempts before the last one made all failed in a way the loop
\* retries, and a sleep follows each of them and nothing else
SleepsBetweenAttempts(attempts, sleeps, outs, retried) ==
  /\ Len(sleeps) = Max(attempts - 1, 0)
  /\ \A k \in 1..(attempts - 1) : outs[k] \in retried

\* C39: in fetch_content, in the three _call_claude and in
\* DuckDuckGoSearchEngine.search every sleep is followed by another attempt:
\* there is one sleep after each attempt but the last, none after the last
\* attempt of the budget and none, and no further attempt, after an attempt
\* that succeeded.
C39_SleepOnlyBeforeRetry ==
  /\ pc = "called" =>
       /\ SleepsBetweenAttempts(ret.attempts, ret.sleeps, args.outs, {"rate_limit"})
       /\ ret.attempts <= MaxRetries
  /\ pc = "fetched" =>
       /\ SleepsBetweenAttempts(ret.gets, ret.sleeps, args.outs,
                                {"http5xx", "timeout"})
       /\ ret.gets <= args.retry_attempts
  /\ pc = "searched" /\ ret.ddg_called =>
       /\ SleepsBetweenAttempts(ret.ddg_attempts, ret.ddg_sleeps, args.ddg_outs,
                                {"exception"})
       /\ ret.ddg_attempts <= DdgMaxAttempts

C39_Witness ==
  /\ pc = "called"
  /\ args.outs = <<"rate_limit", "rate_limit", "rate_limit">>
  /\ ret.exc = "RateLimitError"
  /\ ret.attempts = 3
  /\ ret.sleeps = <<1, 2>>

====
